---- MODULE Spec2Model ----
(***************************************************************************)
(* Cross-platform keyword dashboard: the keyword fixture and its lookup,   *)
(* the opportunity scorer (findGaps, calcScore, analyzeKeyword), the brand *)
(* coverage auditor, the hybrid API client and the /api/keywords route.    *)
(*                                                                         *)
(* Representation.                                                         *)
(*  - A JavaScript string is a TLA+ string; characters are read with       *)
(*    SubSeq, so toLowerCase, trim, startsWith and includes are computed   *)
(*    character by character.                                              *)
(*  - A JavaScript object used as a map (Record<string, T>) is the         *)
(*    sequence of its entries <<key, value>> in insertion order, which is  *)
(*    the order Object.entries walks it in.                                *)
(*  - null and undefined are the string NULL where a string or an opaque   *)
(*    number is expected (cpc and competition are carried as the text of   *)
(*    their literal, they are never computed with).                        *)
(*  - A non-integer number (volume_ratio, opportunity_score) is an exact   *)
(*    fraction [num, den] with den > 0; fractions are compared by cross    *)
(*    multiplication.  gap_score is kept in tenths, as Math.round(x*10)/10 *)
(*    leaves it.                                                           *)
(***************************************************************************)
EXTENDS Integers, Sequences, FiniteSets, TLC

NULL == "null"

\* ---------------------------------------------------------------- strings

UPPER == "ABCDEFGHIJKLMNOPQRSTUVWXYZ"

LOWER == "abcdefghijklmnopqrstuvwxyz"

WhiteSpace == {" ", "\t"}

CharAt(s, i) == SubSeq(s, i, i)

UpperChars == { CharAt(UPPER, i) : i \in 1..Len(UPPER) }

LowerOf ==
  [ c \in UpperChars |-> CharAt(LOWER, CHOOSE i \in 1..Len(UPPER) : CharAt(UPPER, i) = c) ]

ToLowerChar(c) == IF c \in UpperChars THEN LowerOf[c] ELSE c

\* The text with each upper-case letter replaced, from position i on.
RECURSIVE LowerFrom(_, _)
LowerFrom(s, i) ==
  IF i > Len(s) THEN ""
  ELSE ToLowerChar(CharAt(s, i)) \o LowerFrom(s, i + 1)

\* A text without upper-case letters is its own lower-case form.
ToLowerCase(s) ==
  IF \A i \in 1..Len(s) : CharAt(s, i) \notin UpperChars THEN s ELSE LowerFrom(s, 1)

RECURSIVE TrimStart(_)
TrimStart(s) ==
  IF Len(s) > 0 /\ CharAt(s, 1) \in WhiteSpace
  THEN TrimStart(SubSeq(s, 2, Len(s)))
  ELSE s

RECURSIVE TrimEnd(_)
TrimEnd(s) ==
  IF Len(s) > 0 /\ CharAt(s, Len(s)) \in WhiteSpace
  THEN TrimEnd(SubSeq(s, 1, Len(s) - 1))
  ELSE s

Trim(s) == TrimEnd(TrimStart(s))

StartsWith(s, q) == Len(q) <= Len(s) /\ SubSeq(s, 1, Len(q)) = q

Includes(s, q) ==
  \E i \in 0..(Len(s) - Len(q)) : SubSeq(s, i + 1, i + Len(q)) = q

\* ---------------------------------------------------------------- objects

Has(obj, key) == \E i \in 1..Len(obj) : obj[i][1] = key

Get(obj, key) == obj[CHOOSE i \in 1..Len(obj) : obj[i][1] = key][2]

Put(obj, key, val) ==
  IF Has(obj, key)
  THEN [ i \in 1..Len(obj) |-> IF obj[i][1] = key THEN <<key, val>> ELSE obj[i] ]
  ELSE Append(obj, <<key, val>>)

\* ---------------------------------------------------------------- fixture

RAW_KEYWORDS ==
  <<
    [ keyword |-> "protein powder",
      platforms |-> <<
        << "google", [ volume |-> 450000, cpc |-> "1.85", competition |-> "0.72",
             trend |-> << 420000, 430000, 445000, 460000, 470000, 480000, 475000, 465000, 450000, 440000, 445000, 450000 >> ] >>,
        << "youtube", [ volume |-> 320000, cpc |-> "null", competition |-> "null",
             trend |-> << 300000, 310000, 315000, 320000, 325000, 330000, 328000, 322000, 318000, 315000, 318000, 320000 >> ] >>,
        << "tiktok", [ volume |-> 890000, cpc |-> "null", competition |-> "null",
             trend |-> << 650000, 700000, 750000, 800000, 850000, 880000, 890000, 895000, 890000, 885000, 888000, 890000 >> ] >>,
        << "instagram", [ volume |-> 245000, cpc |-> "null", competition |-> "null",
             trend |-> << 220000, 225000, 230000, 235000, 240000, 242000, 244000, 245000, 245000, 244000, 244000, 245000 >> ] >>,
        << "amazon", [ volume |-> 560000, cpc |-> "2.10", competition |-> "0.85",
             trend |-> << 520000, 530000, 540000, 550000, 555000, 560000, 565000, 562000, 558000, 555000, 558000, 560000 >> ] >>
      >> ],
    [ keyword |-> "grwm protein shake",
      platforms |-> <<
        << "google", [ volume |-> 2400, cpc |-> "0.45", competition |-> "0.15",
             trend |-> << 800, 1000, 1200, 1500, 1800, 2000, 2100, 2200, 2300, 2350, 2380, 2400 >> ] >>,
        << "youtube", [ volume |-> 45000, cpc |-> "null", competition |-> "null",
             trend |-> << 25000, 28000, 32000, 36000, 40000, 42000, 43500, 44000, 44500, 44800, 45000, 45000 >> ] >>,
        << "tiktok", [ volume |-> 340000, cpc |-> "null", competition |-> "null",
             trend |-> << 180000, 210000, 250000, 280000, 300000, 315000, 325000, 332000, 336000, 338000, 339000, 340000 >> ] >>,
        << "instagram", [ volume |-> 89000, cpc |-> "null", competition |-> "null",
             trend |-> << 45000, 52000, 60000, 68000, 75000, 80000, 83000, 85000, 87000, 88000, 88500, 89000 >> ] >>,
        << "amazon", [ volume |-> 0, cpc |-> "null", competition |-> "null",
             trend |-> << 0, 0, 0, 0, 0, 0, 0, 0, 0, 0, 0, 0 >> ] >>
      >> ],
    [ keyword |-> "best vegan protein 2024",
      platforms |-> <<
        << "google", [ volume |-> 74000, cpc |-> "2.40", competition |-> "0.68",
             trend |-> << 55000, 58000, 62000, 66000, 70000, 72000, 73000, 73500, 74000, 74000, 74000, 74000 >> ] >>,
        << "youtube", [ volume |-> 89000, cpc |-> "null", competition |-> "null",
             trend |-> << 65000, 70000, 75000, 80000, 84000, 86000, 87500, 88000, 88500, 89000, 89000, 89000 >> ] >>,
        << "tiktok", [ volume |-> 245000, cpc |-> "null", competition |-> "null",
             trend |-> << 150000, 170000, 190000, 210000, 225000, 235000, 240000, 242000, 244000, 245000, 245000, 245000 >> ] >>,
        << "instagram", [ volume |-> 67000, cpc |-> "null", competition |-> "null",
             trend |-> << 45000, 50000, 55000, 58000, 62000, 64000, 65500, 66000, 66500, 67000, 67000, 67000 >> ] >>,
        << "amazon", [ volume |-> 156000, cpc |-> "1.95", competition |-> "0.78",
             trend |-> << 120000, 128000, 136000, 142000, 148000, 152000, 154000, 155000, 155500, 156000, 156000, 156000 >> ] >>
      >> ],
    [ keyword |-> "gym aesthetic",
      platforms |-> <<
        << "google", [ volume |-> 8100, cpc |-> "0.35", competition |-> "0.22",
             trend |-> << 5000, 5500, 6000, 6500, 7000, 7400, 7700, 7900, 8000, 8050, 8080, 8100 >> ] >>,
        << "youtube", [ volume |-> 125000, cpc |-> "null", competition |-> "null",
             trend |-> << 80000, 90000, 98000, 105000, 112000, 118000, 121000, 123000, 124000, 124500, 125000, 125000 >> ] >>,
        << "tiktok", [ volume |-> 1200000, cpc |-> "null", competition |-> "null",
             trend |-> << 700000, 800000, 900000, 980000, 1050000, 1100000, 1140000, 1170000, 1185000, 1195000, 1198000, 1200000 >> ] >>,
        << "instagram", [ volume |-> 890000, cpc |-> "null", competition |-> "null",
             trend |-> << 600000, 680000, 750000, 800000, 840000, 865000, 878000, 885000, 888000, 889500, 890000, 890000 >> ] >>,
        << "amazon", [ volume |-> 0, cpc |-> "null", competition |-> "null",
             trend |-> << 0, 0, 0, 0, 0, 0, 0, 0, 0, 0, 0, 0 >> ] >>,
        << "pinterest", [ volume |-> 340000, cpc |-> "null", competition |-> "null",
             trend |-> << 220000, 250000, 280000, 300000, 315000, 325000, 332000, 336000, 338000, 339000, 340000, 340000 >> ] >>
      >> ],
    [ keyword |-> "whey protein isolate",
      platforms |-> <<
        << "google", [ volume |-> 201000, cpc |-> "2.15", competition |-> "0.75",
             trend |-> << 185000, 188000, 192000, 195000, 198000, 200000, 200500, 201000, 201000, 201000, 201000, 201000 >> ] >>,
        << "youtube", [ volume |-> 78000, cpc |-> "null", competition |-> "null",
             trend |-> << 70000, 72000, 74000, 75500, 76500, 77200, 77600, 77800, 78000, 78000, 78000, 78000 >> ] >>,
        << "tiktok", [ volume |-> 56000, cpc |-> "null", competition |-> "null",
             trend |-> << 40000, 44000, 48000, 51000, 53000, 54500, 55200, 55600, 55800, 56000, 56000, 56000 >> ] >>,
        << "instagram", [ volume |-> 34000, cpc |-> "null", competition |-> "null",
             trend |-> << 28000, 29500, 31000, 32000, 33000, 33400, 33700, 33850, 33950, 34000, 34000, 34000 >> ] >>,
        << "amazon", [ volume |-> 445000, cpc |-> "2.50", competition |-> "0.88",
             trend |-> << 400000, 410000, 420000, 430000, 438000, 442000, 444000, 444500, 445000, 445000, 445000, 445000 >> ] >>
      >> ],
    [ keyword |-> "pre workout",
      platforms |-> <<
        << "google", [ volume |-> 673000, cpc |-> "1.45", competition |-> "0.65",
             trend |-> << 620000, 635000, 650000, 660000, 668000, 672000, 673000, 673000, 673000, 673000, 673000, 673000 >> ] >>,
        << "youtube", [ volume |-> 445000, cpc |-> "null", competition |-> "null",
             trend |-> << 380000, 400000, 420000, 432000, 440000, 444000, 445000, 445000, 445000, 445000, 445000, 445000 >> ] >>,
        << "tiktok", [ volume |-> 560000, cpc |-> "null", competition |-> "null",
             trend |-> << 420000, 460000, 490000, 520000, 540000, 550000, 555000, 558000, 559000, 560000, 560000, 560000 >> ] >>,
        << "instagram", [ volume |-> 234000, cpc |-> "null", competition |-> "null",
             trend |-> << 200000, 210000, 220000, 226000, 230000, 232000, 233000, 233500, 234000, 234000, 234000, 234000 >> ] >>,
        << "amazon", [ volume |-> 890000, cpc |-> "1.80", competition |-> "0.82",
             trend |-> << 800000, 830000, 860000, 875000, 885000, 888000, 890000, 890000, 890000, 890000, 890000, 890000 >> ] >>
      >> ],
    [ keyword |-> "creatine monohydrate",
      platforms |-> <<
        << "google", [ volume |-> 165000, cpc |-> "1.95", competition |-> "0.70",
             trend |-> << 140000, 148000, 155000, 160000, 163000, 164500, 165000, 165000, 165000, 165000, 165000, 165000 >> ] >>,
        << "youtube", [ volume |-> 89000, cpc |-> "null", competition |-> "null",
             trend |-> << 75000, 80000, 84000, 86500, 88000, 88800, 89000, 89000, 89000, 89000, 89000, 89000 >> ] >>,
        << "tiktok", [ volume |-> 234000, cpc |-> "null", competition |-> "null",
             trend |-> << 150000, 175000, 195000, 215000, 225000, 230000, 232000, 233000, 234000, 234000, 234000, 234000 >> ] >>,
        << "instagram", [ volume |-> 67000, cpc |-> "null", competition |-> "null",
             trend |-> << 55000, 58000, 62000, 64500, 66000, 66800, 67000, 67000, 67000, 67000, 67000, 67000 >> ] >>,
        << "amazon", [ volume |-> 320000, cpc |-> "2.20", competition |-> "0.85",
             trend |-> << 280000, 295000, 308000, 315000, 318000, 319500, 320000, 320000, 320000, 320000, 320000, 320000 >> ] >>
      >> ],
    [ keyword |-> "that girl morning routine",
      platforms |-> <<
        << "google", [ volume |-> 12000, cpc |-> "0.25", competition |-> "0.18",
             trend |-> << 4000, 5500, 7000, 8500, 9800, 10800, 11400, 11700, 11900, 12000, 12000, 12000 >> ] >>,
        << "youtube", [ volume |-> 156000, cpc |-> "null", competition |-> "null",
             trend |-> << 80000, 100000, 120000, 135000, 145000, 152000, 154500, 155500, 156000, 156000, 156000, 156000 >> ] >>,
        << "tiktok", [ volume |-> 890000, cpc |-> "null", competition |-> "null",
             trend |-> << 400000, 520000, 640000, 750000, 820000, 860000, 880000, 888000, 890000, 890000, 890000, 890000 >> ] >>,
        << "instagram", [ volume |-> 445000, cpc |-> "null", competition |-> "null",
             trend |-> << 200000, 280000, 350000, 400000, 425000, 438000, 443000, 444500, 445000, 445000, 445000, 445000 >> ] >>,
        << "pinterest", [ volume |-> 234000, cpc |-> "null", competition |-> "null",
             trend |-> << 120000, 155000, 185000, 210000, 222000, 230000, 232500, 233500, 234000, 234000, 234000, 234000 >> ] >>
      >> ],
    [ keyword |-> "fyp fitness tips",
      platforms |-> <<
        << "google", [ volume |-> 0, cpc |-> "null", competition |-> "null",
             trend |-> << 0, 0, 0, 0, 0, 0, 0, 0, 0, 0, 0, 0 >> ] >>,
        << "youtube", [ volume |-> 8500, cpc |-> "null", competition |-> "null",
             trend |-> << 3000, 4200, 5500, 6500, 7200, 7800, 8100, 8300, 8400, 8500, 8500, 8500 >> ] >>,
        << "tiktok", [ volume |-> 560000, cpc |-> "null", competition |-> "null",
             trend |-> << 280000, 350000, 420000, 480000, 520000, 545000, 555000, 558000, 559500, 560000, 560000, 560000 >> ] >>,
        << "instagram", [ volume |-> 45000, cpc |-> "null", competition |-> "null",
             trend |-> << 20000, 26000, 32000, 37000, 41000, 43500, 44500, 44800, 45000, 45000, 45000, 45000 >> ] >>
      >> ],
    [ keyword |-> "amazon protein powder best seller",
      platforms |-> <<
        << "google", [ volume |-> 18000, cpc |-> "1.65", competition |-> "0.55",
             trend |-> << 12000, 13500, 15000, 16200, 17000, 17500, 17800, 17950, 18000, 18000, 18000, 18000 >> ] >>,
        << "youtube", [ volume |-> 23000, cpc |-> "null", competition |-> "null",
             trend |-> << 15000, 17500, 19500, 21000, 22000, 22600, 22900, 23000, 23000, 23000, 23000, 23000 >> ] >>,
        << "tiktok", [ volume |-> 34000, cpc |-> "null", competition |-> "null",
             trend |-> << 18000, 22000, 26000, 29500, 32000, 33200, 33800, 34000, 34000, 34000, 34000, 34000 >> ] >>,
        << "amazon", [ volume |-> 245000, cpc |-> "2.30", competition |-> "0.90",
             trend |-> << 200000, 215000, 228000, 238000, 243000, 244500, 245000, 245000, 245000, 245000, 245000, 245000 >> ] >>
      >> ]
  >>

toPlatformData(key, raw) ==
  [ platform     |-> key,
    volume       |-> raw.volume,
    cpc          |-> raw.cpc,
    competition  |-> raw.competition,
    trend        |-> raw.trend,
    is_estimated |-> ~(key \in {"google", "bing"}) ]

RECURSIVE BuildLoop(_, _, _)
BuildLoop(entries, i, acc) ==
  IF i > Len(entries) THEN acc
  ELSE LET key == entries[i][1]
           pd  == entries[i][2]
           hit == pd.volume > acc.maxVol
       IN  BuildLoop(entries, i + 1,
             [ platforms       |-> Put(acc.platforms, key, toPlatformData(key, pd)),
               totalVolume     |-> acc.totalVolume + pd.volume,
               primaryPlatform |-> IF hit THEN key ELSE acc.primaryPlatform,
               maxVol          |-> IF hit THEN pd.volume ELSE acc.maxVol ])

buildCrossPlatform_MaxAsTotal(raw) ==
  LET acc == BuildLoop(raw.platforms, 1,
               [ platforms |-> <<>>, totalVolume |-> 0,
                 primaryPlatform |-> NULL, maxVol |-> 0 ])
  IN  [ keyword          |-> raw.keyword,
        platforms        |-> acc.platforms,
        total_volume     |-> acc.maxVol,
        primary_platform |-> acc.primaryPlatform ]

buildCrossPlatform(raw) ==
  LET acc == BuildLoop(raw.platforms, 1,
               [ platforms |-> <<>>, totalVolume |-> 0,
                 primaryPlatform |-> NULL, maxVol |-> 0 ])
  IN  [ keyword          |-> raw.keyword,
        platforms        |-> acc.platforms,
        total_volume     |-> acc.totalVolume,
        primary_platform |-> acc.primaryPlatform ]

MapBuild(raws) == [ i \in 1..Len(raws) |-> buildCrossPlatform(raws[i]) ]

\* The module-level index: KEYWORDS = RAW_KEYWORDS.map(buildCrossPlatform).
VARIABLES
  KEYWORDS,   \* the keyword list the lookups walk, in list order
  pc,         \* where the caller is: "idle", "fetching", "responded", ...
  keyword,    \* the keyword of the search in progress
  response,   \* what fetch("/api/keywords?keyword=...") settled with
  allSettled, \* what the route's three fetchers settled with (Nil when not run)
  kw,         \* the CrossPlatformKeyword in hand (Nil when none)
  analysis,   \* the OpportunityAnalysis of kw (Nil when none)
  error,      \* the message of the Error thrown (NULL when none)
  found,      \* the result of findKeyword (Nil for null)
  matches,    \* the result of searchKeywords
  domain,     \* the brand domain audited
  audited,    \* the keyword list audited
  audits,     \* the result of runBrandCoverage
  summary,    \* the result of runBrandSummary (Nil when none)
  loading,          \* the page's state: useState(false)
  pageError,        \* the page's error state: useState(null)
  keywordData,      \* useState(null)
  opportunities,    \* useState(null)
  searchedKeyword,  \* useState("")
  calls,      \* the handleSearch calls in flight, in the order they started
  monthly,    \* the monthly_searches list given to extractTrend (Nil for null)
  trend       \* the result of extractTrend

vars ==
  <<KEYWORDS, pc, keyword, response, allSettled, kw, analysis, error,
    found, matches, domain, audited, audits, summary,
    loading, pageError, keywordData, opportunities, searchedKeyword, calls,
    monthly, trend>>

trendVars == <<monthly, trend>>

Nil == [ nil |-> TRUE ]

\* ---------------------------------------------------------------- lookup

\* KEYWORD_INDEX.get(q): a Map built from [lower-cased keyword, record] pairs
\* keeps, for a repeated key, the record set last.
KEYWORD_INDEX_has(q) ==
  \E i \in 1..Len(KEYWORDS) : ToLowerCase(KEYWORDS[i].keyword) = q

LastIndex(S) == CHOOSE i \in S : \A j \in S : j <= i

KEYWORD_INDEX_get(q) ==
  KEYWORDS[LastIndex({ i \in 1..Len(KEYWORDS) : ToLowerCase(KEYWORDS[i].keyword) = q })]

\* The position a "for (const kw of KEYWORDS) if (...) return kw" loop stops at,
\* given the positions that pass its test.
FirstIndex(S) == CHOOSE i \in S : \A j \in S : i <= j

findKeyword_SubstringFirst(query) ==
  LET q == Trim(ToLowerCase(query))
      incl == { i \in 1..Len(KEYWORDS) : Includes(ToLowerCase(KEYWORDS[i].keyword), q) }
  IN  IF incl # {} THEN KEYWORDS[FirstIndex(incl)] ELSE Nil

findKeyword(query) ==
  LET q == Trim(ToLowerCase(query))
      starts == { i \in 1..Len(KEYWORDS) :
                    StartsWith(ToLowerCase(KEYWORDS[i].keyword), q) }
      incl   == { i \in 1..Len(KEYWORDS) :
                    Includes(ToLowerCase(KEYWORDS[i].keyword), q) }
  IN  IF KEYWORD_INDEX_has(q) THEN KEYWORD_INDEX_get(q)
      ELSE IF starts # {} THEN KEYWORDS[FirstIndex(starts)]
      ELSE IF incl # {} THEN KEYWORDS[FirstIndex(incl)]
      ELSE Nil

searchKeywords_BlankNone(query) ==
  LET q == Trim(ToLowerCase(query))
      keep(k) == Includes(ToLowerCase(k.keyword), q)
  IN  IF q = "" THEN <<>> ELSE SelectSeq(KEYWORDS, keep)

searchKeywords_Prefix(query) ==
  LET q == Trim(ToLowerCase(query))
      keep(k) == StartsWith(ToLowerCase(k.keyword), q)
  IN  IF q = "" THEN KEYWORDS ELSE SelectSeq(KEYWORDS, keep)

searchKeywords(query) ==
  LET q == Trim(ToLowerCase(query))
      keep(k) == Includes(ToLowerCase(k.keyword), q)
  IN  IF q = "" THEN KEYWORDS ELSE SelectSeq(KEYWORDS, keep)

\* ---------------------------------------------------------------- fractions

RECURSIVE Gcd(_, _)
Gcd(a, b) == IF b = 0 THEN a ELSE Gcd(b, a % b)

\* The fraction n / d (n >= 0, d > 0) in lowest terms.
Frac(n, d) ==
  LET g == Gcd(n, d)
  IN  [ num |-> n \div g, den |-> d \div g ]

\* a / b < c / d for a, c >= 0 and b, d > 0, by comparing the integer parts and
\* then the remainders, so that no product is formed.
RECURSIVE LtQuot(_, _, _, _)
LtQuot(a, b, c, d) ==
  IF a \div b # c \div d THEN a \div b < c \div d
  ELSE IF c % d = 0 THEN FALSE
  ELSE IF a % b = 0 THEN TRUE
  ELSE LtQuot(d, c % d, b, a % b)

FracLt(a, b) == LtQuot(a.num, a.den, b.num, b.den)

FracLeq(a, b) == ~FracLt(b, a)

FracEq(a, b) == ~FracLt(a, b) /\ ~FracLt(b, a)

FracAdd(a, b) == Frac(a.num * b.den + b.num * a.den, a.den * b.den)

FracMul(a, b) == Frac(a.num * b.num, a.den * b.den)

FracMin(a, b) == IF FracLeq(a, b) THEN a ELSE b

Max(a, b) == IF a >= b THEN a ELSE b

\* ---------------------------------------------------------------- analyzer

STRATEGIC_PAIRS ==
  << <<"tiktok", "google">>,
     <<"instagram", "google">>,
     <<"youtube", "google">>,
     <<"tiktok", "youtube">>,
     <<"amazon", "google">>,
     <<"pinterest", "google">> >>

MIN_VOLUME == 1000

GAP_RATIO == 5

RatioScore_CapAtSentinel(ratio) ==
  FracMin(Frac(95, 1), FracAdd(Frac(50, 1), FracMul(ratio, Frac(2, 1))))

RatioScore_NoCap(ratio) == FracAdd(Frac(50, 1), FracMul(ratio, Frac(2, 1)))

\* The score of a pair with a non-zero low volume: Math.min(90, 50 + ratio * 2).
RatioScore(ratio) ==
  FracMin(Frac(90, 1), FracAdd(Frac(50, 1), FracMul(ratio, Frac(2, 1))))

\* The gap entry findGaps pushes.  The recommendation keeps its template and the
\* values formatted into it.
GapEntry(k, highKey, highVol, lowKey, lowVol, ratio, score) ==
  [ keyword              |-> k.keyword,
    opportunity_type     |-> "platform_gap",
    high_volume_platform |-> highKey,
    high_volume          |-> highVol,
    low_volume_platform  |-> lowKey,
    low_volume           |-> lowVol,
    volume_ratio         |-> ratio,
    opportunity_score    |-> score,
    recommendation       |->
      IF lowVol = 0
      THEN [ text |-> "ZERO", keyword |-> k.keyword, high |-> highKey, low |-> lowKey ]
      ELSE [ text |-> "x more searches", keyword |-> k.keyword, high |-> highKey,
             low |-> lowKey ] ]

BelowMinVolume_Never(highVol) == FALSE

\* if (highVol < MIN_VOLUME) continue;
BelowMinVolume(highVol) == highVol < MIN_VOLUME

MeetsGapRatio_AnyDemand(highVol, lowVol) == highVol >= MIN_VOLUME

MeetsGapRatio_Strict(highVol, lowVol) ==
  FracLt(Frac(GAP_RATIO, 1), Frac(highVol, Max(lowVol, 1)))

\* highVol / Math.max(lowVol, 1) >= GAP_RATIO
MeetsGapRatio(highVol, lowVol) ==
  FracLeq(Frac(GAP_RATIO, 1), Frac(highVol, Max(lowVol, 1)))

\* The ratio and the score of a pair whose low volume is 0.
SentinelRatio == Frac(999, 1)

SentinelScore_Cap == Frac(90, 1)

SentinelScore == Frac(95, 1)

LowVolume_AbsentAsOne(k, lowKey) ==
  IF Has(k.platforms, lowKey) THEN Get(k.platforms, lowKey).volume ELSE 1

\* lowData?.volume ?? 0
LowVolume(k, lowKey) ==
  IF Has(k.platforms, lowKey) THEN Get(k.platforms, lowKey).volume ELSE 0

\* One pass of the loop body of findGaps: what the pair adds to gaps.
GapsOfPair(k, pair) ==
  LET highKey == pair[1]
      lowKey  == pair[2]
  IN  IF ~Has(k.platforms, highKey) THEN <<>>
      ELSE
        LET highVol == Get(k.platforms, highKey).volume
            lowVol  == LowVolume(k, lowKey)
        IN  IF BelowMinVolume(highVol) THEN <<>>
            ELSE IF lowVol = 0
              THEN << GapEntry(k, highKey, highVol, lowKey, lowVol,
                               SentinelRatio, SentinelScore) >>
            ELSE IF MeetsGapRatio(highVol, lowVol)
              THEN << GapEntry(k, highKey, highVol, lowKey, lowVol,
                               Frac(highVol, lowVol),
                               RatioScore(Frac(highVol, lowVol))) >>
            ELSE <<>>

RECURSIVE CollectGaps(_, _)
CollectGaps(k, i) ==
  IF i > Len(STRATEGIC_PAIRS) THEN <<>>
  ELSE GapsOfPair(k, STRATEGIC_PAIRS[i]) \o CollectGaps(k, i + 1)

\* Array.prototype.sort with (a, b) => b.opportunity_score - a.opportunity_score:
\* stable, descending by score.
RECURSIVE InsertByScore(_, _)
InsertByScore(sorted, g) ==
  IF Len(sorted) = 0 THEN <<g>>
  ELSE IF FracLt(Head(sorted).opportunity_score, g.opportunity_score)
       THEN <<g>> \o sorted
       ELSE <<Head(sorted)>> \o InsertByScore(Tail(sorted), g)

RECURSIVE SortFrom(_, _, _)
SortFrom(gaps, i, sorted) ==
  IF i > Len(gaps) THEN sorted
  ELSE SortFrom(gaps, i + 1, InsertByScore(sorted, gaps[i]))

SortByScoreDesc_Ascending(gaps) ==
  LET s == SortFrom(gaps, 1, <<>>)
  IN  [ i \in 1..Len(s) |-> s[Len(s) + 1 - i] ]

SortByScoreDesc(gaps) == SortFrom(gaps, 1, <<>>)

findGaps_SharedGaps(k) ==
  SortByScoreDesc((IF analysis = Nil THEN <<>> ELSE analysis.platform_gaps)
                    \o CollectGaps(k, 1))

findGaps(k) == SortByScoreDesc(CollectGaps(k, 1))

RECURSIVE MaxScoreFrom(_, _, _)
MaxScoreFrom(gaps, i, best) ==
  IF i > Len(gaps) THEN best
  ELSE MaxScoreFrom(gaps, i + 1,
         IF FracLt(best, gaps[i].opportunity_score)
         THEN gaps[i].opportunity_score ELSE best)

MaxScore(gaps) == MaxScoreFrom(gaps, 2, gaps[1].opportunity_score)

VolumePoints(k) ==
  IF k.total_volume > 1000000 THEN 30
  ELSE IF k.total_volume > 100000 THEN 20
  ELSE IF k.total_volume > 10000 THEN 10
  ELSE 0

\* pd.trend.length >= 12 && pd.trend[11] > pd.trend[0] * 1.2, on integers:
\* t12 > 1.2 * t1 exactly when 5 * t12 > 6 * t1.
TrendRising(pd) ==
  Len(pd.trend) >= 12 /\ 5 * pd.trend[12] > 6 * pd.trend[1]

TrendPoints_NoBreak(k) ==
  10 * Cardinality({ i \in 1..Len(k.platforms) : TrendRising(k.platforms[i][2]) })

\* The loop over the platforms adds 10 for the first rising trend and breaks.
TrendPoints(k) ==
  IF \E i \in 1..Len(k.platforms) : TrendRising(k.platforms[i][2]) THEN 10 ELSE 0

GapPoints(gaps) ==
  IF Len(gaps) > 0 THEN FracMul(MaxScore(gaps), Frac(1, 2)) ELSE Frac(0, 1)

calcScore(k, gaps) ==
  FracMin(Frac(100, 1),
          FracAdd(FracAdd(Frac(VolumePoints(k), 1), GapPoints(gaps)),
                  Frac(TrendPoints(k), 1)))

analyzeKeyword(k) ==
  LET gaps  == findGaps(k)
      score == calcScore(k, gaps)
  IN  [ keyword           |-> k.keyword,
        total_volume      |-> k.total_volume,
        primary_platform  |-> k.primary_platform,
        platforms         |-> k.platforms,
        platform_gaps     |-> gaps,
        opportunity_score |-> score ]

\* ---------------------------------------------------------------- /api/keywords

RouteError(status, message) ==
  [ ok |-> FALSE, status |-> status, json |-> [ error |-> message ] ]

\* What Promise.allSettled gives for one fetcher.
Rejected(reason) == [ status |-> "rejected", reason |-> reason ]

Fulfilled(value) == [ status |-> "fulfilled", value |-> value ]

\* google.status === "fulfilled" ? google.value[kw] : null
SettledEntry(settled, k) ==
  IF settled.status = "fulfilled" /\ Has(settled.value, k)
  THEN Get(settled.value, k) ELSE Nil

\* One of the three "if (data && data.volume > 0) { ... }" blocks of GET.
RouteAdd(acc, key, data, pd) ==
  IF data # Nil /\ data.volume > 0
  THEN [ platforms       |-> Put(acc.platforms, key, pd),
         totalVolume     |-> acc.totalVolume + data.volume,
         maxVolume       |-> IF data.volume > acc.maxVolume
                             THEN data.volume ELSE acc.maxVolume,
         primaryPlatform |-> IF data.volume > acc.maxVolume
                             THEN key ELSE acc.primaryPlatform ]
  ELSE acc

RoutePlatform(key, data) ==
  [ platform     |-> key,
    volume       |-> data.volume,
    cpc          |-> data.cpc,
    competition  |-> data.competition,
    trend        |-> data.trend,
    is_estimated |-> FALSE,
    source       |-> "dataforseo" ]

RouteAmazon(data) ==
  [ platform     |-> "amazon",
    volume       |-> data.volume,
    cpc          |-> NULL,
    competition  |-> NULL,
    trend        |-> <<>>,
    is_estimated |-> FALSE,
    source       |-> "dataforseo" ]

RouteErrors_FirstRejected(google, bing, amazon) ==
  IF google.status = "rejected" THEN << "Google: " \o google.reason >>
  ELSE IF bing.status = "rejected" THEN << "Bing: " \o bing.reason >>
  ELSE IF amazon.status = "rejected" THEN << "Amazon: " \o amazon.reason >>
  ELSE <<>>

RouteErrors(google, bing, amazon) ==
  (IF google.status = "rejected" THEN << "Google: " \o google.reason >> ELSE <<>>)
  \o (IF bing.status = "rejected" THEN << "Bing: " \o bing.reason >> ELSE <<>>)
  \o (IF amazon.status = "rejected" THEN << "Amazon: " \o amazon.reason >> ELSE <<>>)

\* GET reaches Promise.allSettled: the keyword parameter is there and the
\* credentials are configured.
RunsFetchers(param, creds) == param # NULL /\ param # "" /\ creds

\* GET(request): param is the "keyword" search parameter (NULL when missing),
\* creds whether DATAFORSEO_LOGIN and DATAFORSEO_PASSWORD are set, and google,
\* bing, amazon what the three fetchers settled with.
GET(param, creds, google, bing, amazon) ==
  IF param = NULL \/ param = "" THEN RouteError(400, "keyword parameter required")
  ELSE IF ~creds THEN RouteError(500, "DataForSEO credentials not configured")
  ELSE
    LET k          == ToLowerCase(param)
        googleData == SettledEntry(google, k)
        bingData   == SettledEntry(bing, k)
        amazonData == SettledEntry(amazon, k)
        acc0 == [ platforms |-> <<>>, totalVolume |-> 0, maxVolume |-> 0,
                  primaryPlatform |-> NULL ]
        acc1 == RouteAdd(acc0, "google", googleData,
                         IF googleData = Nil THEN Nil
                         ELSE RoutePlatform("google", googleData))
        acc2 == RouteAdd(acc1, "bing", bingData,
                         IF bingData = Nil THEN Nil
                         ELSE RoutePlatform("bing", bingData))
        acc3 == RouteAdd(acc2, "amazon", amazonData,
                         IF amazonData = Nil THEN Nil
                         ELSE RouteAmazon(amazonData))
        errors == RouteErrors(google, bing, amazon)
        body == [ keyword          |-> param,
                  platforms        |-> acc3.platforms,
                  total_volume     |-> acc3.totalVolume,
                  primary_platform |-> acc3.primaryPlatform,
                  sources          |-> [ google |-> "dataforseo", bing |-> "dataforseo",
                                         amazon |-> "dataforseo" ] ]
    IN  [ ok |-> TRUE, status |-> 200,
          json |-> IF Len(errors) > 0 THEN body @@ [ errors |-> errors ] ELSE body ]

\* ---------------------------------------------------------------- hybrid client

SOCIAL_KEYS == {"youtube", "tiktok", "instagram", "pinterest"}

IsSocialEntry(e) == e[1] \in SOCIAL_KEYS

\* The inner loop of the SOCIAL_DEMO pre-build, for one keyword record.
SocialOf(k) ==
  LET picked == SelectSeq(k.platforms, IsSocialEntry)
  IN  [ i \in 1..Len(picked) |->
          << picked[i][1],
             [ volume       |-> picked[i][2].volume,
               cpc          |-> picked[i][2].cpc,
               competition  |-> picked[i][2].competition,
               trend        |-> picked[i][2].trend,
               is_estimated |-> TRUE ] >> ]

\* SOCIAL_DEMO[key]: set for each keyword with at least one social platform,
\* under its lower-cased text; a later keyword with the same key overwrites.
SOCIAL_DEMO_has(key) ==
  \E i \in 1..Len(KEYWORDS) :
    ToLowerCase(KEYWORDS[i].keyword) = key /\ Len(SocialOf(KEYWORDS[i])) > 0

SOCIAL_DEMO_get(key) ==
  SocialOf(KEYWORDS[LastIndex({ i \in 1..Len(KEYWORDS) :
    ToLowerCase(KEYWORDS[i].keyword) = key /\ Len(SocialOf(KEYWORDS[i])) > 0 })])

Join_FirstOnly(strs, sep) == IF Len(strs) = 0 THEN "" ELSE strs[1]

RECURSIVE Join(_, _)
Join(strs, sep) ==
  IF Len(strs) = 0 THEN ""
  ELSE IF Len(strs) = 1 THEN strs[1]
  ELSE strs[1] \o sep \o Join(Tail(strs), sep)

NotFoundMessage(k) ==
  LET all == searchKeywords("")
  IN  "No data found for \"" \o k \o "\". Try: "
        \o Join([ i \in 1..Len(all) |-> all[i].keyword ], ", ")

\* The two merge loops of getCrossPlatformKeyword.  The loop over the vendor's
\* platforms assigns every entry; the loop over the social demo entries skips a
\* key that is already set.
RECURSIVE MergeLoop(_, _, _, _)
MergeLoop(entries, i, estimated, acc) ==
  IF i > Len(entries) THEN acc
  ELSE
    LET key == entries[i][1]
        pd  == entries[i][2]
        platformData ==
          [ platform     |-> key,
            volume       |-> pd.volume,
            cpc          |-> pd.cpc,
            competition  |-> pd.competition,
            trend        |-> pd.trend,
            is_estimated |-> estimated ]
        hit == pd.volume > acc.maxVolume
    IN  IF estimated /\ Has(acc.platforms, key)
        THEN MergeLoop(entries, i + 1, estimated, acc)
        ELSE MergeLoop(entries, i + 1, estimated,
               [ platforms       |-> Put(acc.platforms, key, platformData),
                 totalVolume     |-> acc.totalVolume + pd.volume,
                 maxVolume       |-> IF hit THEN pd.volume ELSE acc.maxVolume,
                 primaryPlatform |-> IF hit THEN key ELSE acc.primaryPlatform ])

Returned(value) == [ ok |-> TRUE, value |-> value ]

Thrown(message) == [ ok |-> FALSE, message |-> message ]

\* fetch threw (the route is not reachable).
FetchThrew == [ threw |-> TRUE ]

getCrossPlatformKeyword_EmptyRecord(k, res) ==
  LET gotReal == /\ res # FetchThrew
                 /\ res.ok
                 /\ "platforms" \in DOMAIN res.json
                 /\ Len(res.json.platforms) > 0
      socialData  == IF SOCIAL_DEMO_has(ToLowerCase(k))
                     THEN SOCIAL_DEMO_get(ToLowerCase(k)) ELSE <<>>
      acc0 == [ platforms |-> <<>>, totalVolume |-> 0, maxVolume |-> 0,
                primaryPlatform |-> NULL ]
      acc1 == MergeLoop(IF gotReal THEN res.json.platforms ELSE <<>>, 1, FALSE, acc0)
      acc2 == MergeLoop(socialData, 1, TRUE, acc1)
  IN  IF Len(acc2.platforms) = 0 /\ ~gotReal /\ findKeyword(k) # Nil
      THEN Returned(findKeyword(k))
      ELSE Returned([ keyword          |-> k,
                      platforms        |-> acc2.platforms,
                      total_volume     |-> acc2.totalVolume,
                      primary_platform |-> acc2.primaryPlatform ])

\* getCrossPlatformKeyword(keyword) of the hybrid client, given what its one
\* fetch settled with.
getCrossPlatformKeyword(k, res) ==
  LET gotReal == /\ res # FetchThrew
                 /\ res.ok
                 /\ "platforms" \in DOMAIN res.json
                 /\ Len(res.json.platforms) > 0
      realData    == IF gotReal THEN res.json.platforms ELSE <<>>
      realFetched == gotReal
      socialData  == IF SOCIAL_DEMO_has(ToLowerCase(k))
                     THEN SOCIAL_DEMO_get(ToLowerCase(k)) ELSE <<>>
      acc0 == [ platforms |-> <<>>, totalVolume |-> 0, maxVolume |-> 0,
                primaryPlatform |-> NULL ]
      acc1 == MergeLoop(realData, 1, FALSE, acc0)
      acc2 == MergeLoop(socialData, 1, TRUE, acc1)
  IN  IF Len(acc2.platforms) > 0
      THEN Returned([ keyword          |-> k,
                      platforms        |-> acc2.platforms,
                      total_volume     |-> acc2.totalVolume,
                      primary_platform |-> acc2.primaryPlatform ])
      ELSE IF ~realFetched /\ findKeyword(k) # Nil
      THEN Returned(findKeyword(k))
      ELSE Thrown(NotFoundMessage(k))

\* ---------------------------------------------------------------- inputs

\* Bounds of the enumerated inputs.
MaxPlatforms == 2

PLATFORM_KEYS ==
  << "google", "youtube", "tiktok", "instagram", "amazon", "pinterest", "bing" >>

Flat(v) ==
  [ volume |-> v, cpc |-> NULL, competition |-> NULL, trend |-> [ i \in 1..12 |-> v ] ]

\* The raw platform data the enumerated records are made of: volumes on both
\* sides of MIN_VOLUME, of GAP_RATIO and of the volume tiers, and trend series
\* that rise, rise by exactly 1.2, are too short, or are empty.
RawPlatformChoices ==
  { Flat(v) : v \in {0, 200, 201, 999, 1000, 10000, 100000, 1000000} }
  \cup { [ volume |-> 1000, cpc |-> NULL, competition |-> NULL,
           trend |-> << 5, 5, 5, 5, 5, 5, 5, 5, 5, 5, 5, 7 >> ],
         [ volume |-> 1000, cpc |-> NULL, competition |-> NULL,
           trend |-> << 5, 5, 5, 5, 5, 5, 5, 5, 5, 5, 5, 6 >> ],
         [ volume |-> 200, cpc |-> NULL, competition |-> NULL,
           trend |-> << 5, 6, 7, 8, 9, 10, 11, 12, 13, 14, 15 >> ],
         [ volume |-> 0, cpc |-> NULL, competition |-> NULL, trend |-> <<>> ] }

\* Records with three and more platforms, on the boundaries two platforms cannot
\* reach together: a pair at ratio exactly 5 beside a pair just below 5, and a
\* record with an opportunity for every configured pair.
BoundaryRaws ==
  { [ keyword |-> "boundary",
      platforms |-> << <<"tiktok", Flat(1000)>>, <<"google", Flat(200)>>,
                       <<"youtube", Flat(201)>> >> ],
    [ keyword |-> "every pair",
      platforms |-> << <<"google", Flat(200)>>, <<"youtube", Flat(10000)>>,
                       <<"tiktok", Flat(1000000)>>, <<"instagram", Flat(1000)>>,
                       <<"amazon", Flat(100000)>>, <<"pinterest", Flat(999)>> >> ],
    [ keyword |-> "no platforms", platforms |-> <<>> ] }

KeySets ==
  { s \in SUBSET (1..Len(PLATFORM_KEYS)) : Cardinality(s) <= MaxPlatforms }

RECURSIVE EntriesOf(_, _)
EntriesOf(s, f) ==
  IF s = {} THEN <<>>
  ELSE LET m == CHOOSE x \in s : \A y \in s : x <= y
       IN  << <<PLATFORM_KEYS[m], f[m]>> >> \o EntriesOf(s \ {m}, f)

\* The keywords typed into the search bar.
SearchInputs ==
  { "protein powder", "Gym Aesthetic", "protein", "fyp fitness tips", "zzz", "" }

VendorVolumes == {0, 1200, 90000}

VendorDatum(v) ==
  [ volume |-> v, cpc |-> "0.45", competition |-> "0.15",
    trend |-> [ i \in 1..12 |-> v ] ]

\* What fetchGoogle and fetchBing can settle with for keyword key k: a thrown
\* error, a map without the keyword, or a map with it.
FetchChoices(k) ==
  { Rejected("Error: DataForSEO 500: "), Fulfilled(<<>>) }
  \cup { Fulfilled(<< <<k, VendorDatum(v)>> >>) : v \in VendorVolumes }

AmazonChoices(k) ==
  { Rejected("Error: DataForSEO 500: "), Fulfilled(<<>>) }
  \cup { Fulfilled(<< <<k, [ volume |-> v ]>> >>) : v \in VendorVolumes }

\* ---------------------------------------------------------------- dashboard search

Cleared ==
  /\ keyword' = ""
  /\ response' = Nil
  /\ allSettled' = Nil
  /\ kw' = Nil
  /\ analysis' = Nil
  /\ error' = NULL

lookupVars == <<found, matches>>

brandVars == <<domain, audited, audits, summary>>

pageVars == <<loading, pageError, keywordData, opportunities, searchedKeyword, calls>>

\* The page as first rendered.
PageFresh ==
  /\ loading = FALSE
  /\ pageError = NULL
  /\ keywordData = Nil
  /\ opportunities = Nil
  /\ searchedKeyword = ""
  /\ calls = <<>>

Init ==
  /\ KEYWORDS = MapBuild(RAW_KEYWORDS)
  /\ pc = "idle"
  /\ keyword = ""
  /\ response = Nil
  /\ allSettled = Nil
  /\ monthly = Nil
  /\ trend = <<>>
  /\ kw = Nil
  /\ analysis = Nil
  /\ error = NULL
  /\ found = Nil
  /\ matches = <<>>
  /\ domain = ""
  /\ audited = <<>>
  /\ audits = <<>>
  /\ summary = Nil
  /\ PageFresh

\* A caller takes a record of the index as it is.
UseFixture ==
  /\ pc = "idle"
  /\ \E i \in 1..Len(KEYWORDS) : kw' = KEYWORDS[i]
  /\ pc' = "built"
  /\ UNCHANGED <<KEYWORDS, trendVars, allSettled, keyword, response, analysis, error, lookupVars, brandVars, pageVars>>

\* buildCrossPlatform over a raw record.
BuildRaw ==
  /\ pc = "idle"
  /\ \/ \E s \in KeySets : \E f \in [ s -> RawPlatformChoices ] :
          kw' = buildCrossPlatform([ keyword   |-> "synthetic",
                                     platforms |-> EntriesOf(s, f) ])
     \/ \E raw \in BoundaryRaws : kw' = buildCrossPlatform(raw)
  /\ pc' = "built"
  /\ UNCHANGED <<KEYWORDS, trendVars, allSettled, keyword, response, analysis, error, lookupVars, brandVars, pageVars>>

\* getCrossPlatformKeyword(keyword) starts: it sends its one request.
StartSearch ==
  /\ pc = "idle"
  /\ \E k \in SearchInputs : keyword' = k
  /\ pc' = "fetching"
  /\ UNCHANGED <<KEYWORDS, trendVars, allSettled, response, kw, analysis, error, lookupVars, brandVars, pageVars>>

\* The route answers.
RouteResponds ==
  /\ pc = "fetching"
  /\ \E creds \in BOOLEAN :
     \E g \in FetchChoices(ToLowerCase(keyword)) :
     \E b \in FetchChoices(ToLowerCase(keyword)) :
     \E a \in AmazonChoices(ToLowerCase(keyword)) :
       /\ response' = GET(keyword, creds, g, b, a)
       /\ allSettled' = IF RunsFetchers(keyword, creds)
                     THEN [ google |-> g, bing |-> b, amazon |-> a ] ELSE Nil
  /\ pc' = "responded"
  /\ UNCHANGED <<KEYWORDS, trendVars, keyword, kw, analysis, error, lookupVars, brandVars, pageVars>>

\* The request fails before any answer.
FetchFails ==
  /\ pc = "fetching"
  /\ response' = FetchThrew
  /\ pc' = "responded"
  /\ UNCHANGED <<KEYWORDS, trendVars, allSettled, keyword, kw, analysis, error, lookupVars, brandVars, pageVars>>

\* The rest of getCrossPlatformKeyword: merge, fall back or throw.
HybridReturns ==
  /\ pc = "responded"
  /\ LET r == getCrossPlatformKeyword(keyword, response)
     IN  IF r.ok
         THEN kw' = r.value /\ error' = NULL /\ pc' = "built"
         ELSE kw' = Nil /\ error' = r.message /\ pc' = "failed"
  /\ UNCHANGED <<KEYWORDS, trendVars, allSettled, keyword, response, analysis, lookupVars, brandVars, pageVars>>

Analyze ==
  /\ pc = "built"
  /\ analysis' = analyzeKeyword(kw)
  /\ pc' = "analyzed"
  /\ UNCHANGED <<KEYWORDS, trendVars, allSettled, keyword, response, kw, error, lookupVars, brandVars, pageVars>>

Return ==
  /\ pc \in {"analyzed", "failed"}
  /\ pc' = "idle"
  /\ Cleared
  /\ UNCHANGED <<KEYWORDS, trendVars, lookupVars, brandVars, pageVars>>

Next ==
  \/ UseFixture
  \/ BuildRaw
  \/ StartSearch
  \/ RouteResponds
  \/ FetchFails
  \/ HybridReturns
  \/ Analyze
  \/ Return

Spec == Init /\ [][Next]_vars

\* ---------------------------------------------------------------- claims: records

RECURSIVE SumVolumes(_, _)
SumVolumes(platforms, i) ==
  IF i > Len(platforms) THEN 0
  ELSE platforms[i][2].volume + SumVolumes(platforms, i + 1)

TotalsAndPrimaryHold(r) ==
  /\ r.total_volume = SumVolumes(r.platforms, 1)
  /\ r.primary_platform # NULL =>
       /\ Has(r.platforms, r.primary_platform)
       /\ \A i \in 1..Len(r.platforms) :
            r.platforms[i][2].volume <= Get(r.platforms, r.primary_platform).volume
  /\ r.primary_platform = NULL =>
       \A i \in 1..Len(r.platforms) : r.platforms[i][2].volume = 0

RouteAnswered == response # Nil /\ response # FetchThrew /\ response.ok

\* C1: every CrossPlatformKeyword in hand (built from a raw record, taken from
\* the index, merged by the hybrid client or returned by its fallback) and every
\* successful route response has total_volume equal to the sum of the volumes of
\* its platforms, a non-null primary_platform that is a key of the platform map
\* with the maximum volume, and a null primary_platform only when every volume
\* is 0.
C1_TotalsAndPrimary ==
  /\ kw # Nil => TotalsAndPrimaryHold(kw)
  /\ RouteAnswered => TotalsAndPrimaryHold(response.json)

\* A record merged from vendor platforms and social demo platforms whose
\* primary platform is set.
C1_Witness ==
  /\ pc = "built"
  /\ RouteAnswered
  /\ Len(response.json.platforms) > 1
  /\ kw # Nil
  /\ \E i \in 1..Len(kw.platforms) : kw.platforms[i][2].is_estimated
  /\ \E i \in 1..Len(kw.platforms) : ~kw.platforms[i][2].is_estimated
  /\ kw.primary_platform # NULL

\* ---------------------------------------------------------------- claims: gaps

Analyzed == pc = "analyzed"

VolumeOf(k, key) == IF Has(k.platforms, key) THEN Get(k.platforms, key).volume ELSE 0

PairIndexes == 1..Len(STRATEGIC_PAIRS)

\* The positions of the returned list that are about pair p.
GapsFor(p) ==
  { i \in 1..Len(analysis.platform_gaps) :
      /\ analysis.platform_gaps[i].high_volume_platform = STRATEGIC_PAIRS[p][1]
      /\ analysis.platform_gaps[i].low_volume_platform = STRATEGIC_PAIRS[p][2] }

\* C2: for every configured pair whose high platform is present with volume
\* >= 1000 and whose low platform has volume 0 or is absent, an opportunity is
\* recorded with volume_ratio 999 and opportunity_score 95.
C2_ZeroLowSentinel ==
  Analyzed =>
    \A p \in PairIndexes :
      ( /\ Has(kw.platforms, STRATEGIC_PAIRS[p][1])
        /\ VolumeOf(kw, STRATEGIC_PAIRS[p][1]) >= 1000
        /\ VolumeOf(kw, STRATEGIC_PAIRS[p][2]) = 0 )
      => \E i \in GapsFor(p) :
           /\ analysis.platform_gaps[i].volume_ratio = [ num |-> 999, den |-> 1 ]
           /\ analysis.platform_gaps[i].opportunity_score = [ num |-> 95, den |-> 1 ]

\* The sentinel is recorded once for an absent low platform and once for a low
\* platform present with volume 0.
C2_Witness ==
  /\ Analyzed
  /\ \E p \in PairIndexes :
       /\ VolumeOf(kw, STRATEGIC_PAIRS[p][1]) >= 1000
       /\ ~Has(kw.platforms, STRATEGIC_PAIRS[p][2])
       /\ GapsFor(p) # {}
  /\ \E p \in PairIndexes :
       /\ VolumeOf(kw, STRATEGIC_PAIRS[p][1]) >= 1000
       /\ Has(kw.platforms, STRATEGIC_PAIRS[p][2])
       /\ VolumeOf(kw, STRATEGIC_PAIRS[p][2]) = 0
       /\ GapsFor(p) # {}

\* C3: no returned opportunity has high_volume < 1000, and none is about a pair
\* whose high platform is absent from the platform map.
C3_NoGapBelowMinVolume ==
  Analyzed =>
    \A i \in 1..Len(analysis.platform_gaps) :
      LET g == analysis.platform_gaps[i]
      IN  /\ g.high_volume >= 1000
          /\ Has(kw.platforms, g.high_volume_platform)
          /\ g.high_volume = Get(kw.platforms, g.high_volume_platform).volume

\* A pair with a high platform present just below 1000 and nothing on the low
\* side, and a pair whose high platform is absent: neither is reported.
C3_Witness ==
  /\ Analyzed
  /\ \E p \in PairIndexes :
       /\ Has(kw.platforms, STRATEGIC_PAIRS[p][1])
       /\ VolumeOf(kw, STRATEGIC_PAIRS[p][1]) = 999
       /\ VolumeOf(kw, STRATEGIC_PAIRS[p][2]) = 0
       /\ GapsFor(p) = {}
  /\ \E p \in PairIndexes :
       /\ ~Has(kw.platforms, STRATEGIC_PAIRS[p][1])
       /\ GapsFor(p) = {}

MinInt(a, b) == IF a <= b THEN a ELSE b

\* C4: for every pair with high >= 1000 and low > 0 an opportunity is recorded
\* if and only if high >= 5 * low; its ratio is high / low and its score is
\* min(90, 50 + 2 * ratio); every pair contributes at most one opportunity.
C4_RatioGap ==
  Analyzed =>
    \A p \in PairIndexes :
      LET high == VolumeOf(kw, STRATEGIC_PAIRS[p][1])
          low  == VolumeOf(kw, STRATEGIC_PAIRS[p][2])
      IN  /\ Cardinality(GapsFor(p)) <= 1
          /\ (high >= 1000 /\ low > 0) =>
               /\ (GapsFor(p) # {}) <=> (high >= 5 * low)
               /\ \A i \in GapsFor(p) :
                    /\ FracEq(analysis.platform_gaps[i].volume_ratio,
                              [ num |-> high, den |-> low ])
                    /\ FracEq(analysis.platform_gaps[i].opportunity_score,
                              [ num |-> MinInt(90 * low, 50 * low + 2 * high),
                                den |-> low ])

\* A pair at ratio exactly 5 is recorded with score 60, and a pair below 5
\* (with high >= 1000) is not recorded.
C4_Witness ==
  /\ Analyzed
  /\ \E p \in PairIndexes :
       /\ VolumeOf(kw, STRATEGIC_PAIRS[p][2]) > 0
       /\ VolumeOf(kw, STRATEGIC_PAIRS[p][1]) >= 1000
       /\ VolumeOf(kw, STRATEGIC_PAIRS[p][1]) = 5 * VolumeOf(kw, STRATEGIC_PAIRS[p][2])
       /\ \E i \in GapsFor(p) :
            analysis.platform_gaps[i].opportunity_score = [ num |-> 60, den |-> 1 ]
  /\ \E p \in PairIndexes :
       /\ VolumeOf(kw, STRATEGIC_PAIRS[p][2]) > 0
       /\ VolumeOf(kw, STRATEGIC_PAIRS[p][1]) >= 1000
       /\ VolumeOf(kw, STRATEGIC_PAIRS[p][1]) < 5 * VolumeOf(kw, STRATEGIC_PAIRS[p][2])
       /\ GapsFor(p) = {}

InRange(x, lo, hi) ==
  /\ ~FracLt(x, [ num |-> lo, den |-> 1 ])
  /\ ~FracLt([ num |-> hi, den |-> 1 ], x)

\* C5: every recorded opportunity with low_volume > 0 has opportunity_score in
\* [50, 90], and the aggregate opportunity_score is in [0, 100].
C5_ScoreRanges ==
  Analyzed =>
    /\ \A i \in 1..Len(analysis.platform_gaps) :
         analysis.platform_gaps[i].low_volume > 0 =>
           InRange(analysis.platform_gaps[i].opportunity_score, 50, 90)
    /\ InRange(analysis.opportunity_score, 0, 100)

\* An opportunity whose score is capped at 90 (its ratio is above 20) next to
\* one strictly between 50 and 90.
C5_Witness ==
  /\ Analyzed
  /\ \E i \in 1..Len(analysis.platform_gaps) :
       /\ analysis.platform_gaps[i].low_volume > 0
       /\ analysis.platform_gaps[i].high_volume > 20 * analysis.platform_gaps[i].low_volume
       /\ analysis.platform_gaps[i].opportunity_score = [ num |-> 90, den |-> 1 ]
  /\ \E i \in 1..Len(analysis.platform_gaps) :
       /\ analysis.platform_gaps[i].low_volume > 0
       /\ FracLt(analysis.platform_gaps[i].opportunity_score, [ num |-> 90, den |-> 1 ])

\* ---------------------------------------------------------------- claims: aggregate

ClaimV ==
  IF analysis.total_volume > 1000000 THEN 30
  ELSE IF analysis.total_volume > 100000 THEN 20
  ELSE IF analysis.total_volume > 10000 THEN 10
  ELSE 0

RisingPlatforms ==
  { i \in 1..Len(kw.platforms) :
      /\ Len(kw.platforms[i][2].trend) >= 12
      /\ 5 * kw.platforms[i][2].trend[12] > 6 * kw.platforms[i][2].trend[1] }

ClaimT == IF RisingPlatforms # {} THEN 10 ELSE 0

\* A position of the returned list holding the maximum score.
TopGap ==
  CHOOSE i \in 1..Len(analysis.platform_gaps) :
    \A j \in 1..Len(analysis.platform_gaps) :
      ~FracLt(analysis.platform_gaps[i].opportunity_score,
              analysis.platform_gaps[j].opportunity_score)

\* V + G + T as a fraction over twice the top score's denominator.
ClaimSum ==
  IF Len(analysis.platform_gaps) = 0
  THEN [ num |-> ClaimV + ClaimT, den |-> 1 ]
  ELSE LET top == analysis.platform_gaps[TopGap].opportunity_score
       IN  [ num |-> 2 * top.den * (ClaimV + ClaimT) + top.num, den |-> 2 * top.den ]

\* C6: the aggregate score equals min(100, V + G + T): V from the strict volume
\* tiers, G half the maximum gap score (0 without gaps), T 10 when at least one
\* platform's trend has 12 points with the 12th above 1.2 times the first (once).
C6_AggregateScore ==
  Analyzed =>
    FracEq(analysis.opportunity_score,
           IF FracLt([ num |-> 100, den |-> 1 ], ClaimSum)
           THEN [ num |-> 100, den |-> 1 ] ELSE ClaimSum)

\* Two platforms qualify for the trend bonus, a gap exists, and the total volume
\* sits exactly on a tier boundary (10,000, which earns nothing).
C6_Witness ==
  /\ Analyzed
  /\ Cardinality(RisingPlatforms) >= 2
  /\ Len(analysis.platform_gaps) > 0
  /\ analysis.opportunity_score = [ num |-> 115, den |-> 2 ]

C6_WitnessTier ==
  /\ Analyzed
  /\ analysis.total_volume = 10000
  /\ analysis.opportunity_score = [ num |-> 95, den |-> 2 ]

\* C7: the returned list holds every opportunity recorded over the six pairs,
\* nothing else, and is ordered by opportunity_score non-increasing.
C7_SortedByScore ==
  Analyzed =>
    LET recorded == CollectGaps(kw, 1)
        gaps     == analysis.platform_gaps
    IN  /\ Len(STRATEGIC_PAIRS) = 6
        /\ Len(gaps) = Len(recorded)
        /\ { gaps[i] : i \in 1..Len(gaps) } = { recorded[i] : i \in 1..Len(recorded) }
        /\ \A i \in 1..(Len(gaps) - 1) :
             ~FracLt(gaps[i].opportunity_score, gaps[i + 1].opportunity_score)

\* The opportunities were recorded in an order the sort had to change.
C7_Witness ==
  /\ Analyzed
  /\ Len(analysis.platform_gaps) >= 3
  /\ analysis.platform_gaps # CollectGaps(kw, 1)
  /\ FracLt(analysis.platform_gaps[3].opportunity_score,
            analysis.platform_gaps[1].opportunity_score)

\* ---------------------------------------------------------------- lookup calls

MaxQueryLen == 3

QueryAlphabet == { "p", "r", "o", " ", "P" }

RECURSIVE StringsUpTo(_)
StringsUpTo(n) ==
  IF n = 0 THEN { "" }
  ELSE LET shorter == StringsUpTo(n - 1)
       IN  shorter \cup { s \o c : s \in shorter, c \in QueryAlphabet }

NamedQueries ==
  { "protein", "Protein Powder", " protein", "protein powder ", "WHEY PROTEIN ISOLATE",
    "tips", "a", "zzz" }

Queries == StringsUpTo(MaxQueryLen) \cup NamedQueries

OnePlatform(text) ==
  [ keyword |-> text, platforms |-> << <<"google", Flat(1000)>> >> ]

\* The keyword lists a lookup walks: the fixture, and lists that put an exact
\* match after a prefix match and a substring match, repeat a keyword in
\* another case, or are empty.
KeywordLists ==
  { MapBuild(RAW_KEYWORDS),
    MapBuild(<< OnePlatform("whey protein"), OnePlatform("protein powder"),
                OnePlatform("protein") >>),
    MapBuild(<< OnePlatform("A Pro"), OnePlatform("Pro"), OnePlatform("pro"),
                OnePlatform("pop") >>),
    MapBuild(<< >>) }

InitLookup ==
  /\ KEYWORDS \in KeywordLists
  /\ pc = "idle"
  /\ keyword = ""
  /\ response = Nil
  /\ allSettled = Nil
  /\ monthly = Nil
  /\ trend = <<>>
  /\ kw = Nil
  /\ analysis = Nil
  /\ error = NULL
  /\ found = Nil
  /\ matches = <<>>
  /\ domain = ""
  /\ audited = <<>>
  /\ audits = <<>>
  /\ summary = Nil
  /\ PageFresh

searchVars == <<response, kw, analysis, error>>

FindKeyword ==
  /\ pc = "idle"
  /\ \E q \in Queries : keyword' = q /\ found' = findKeyword(q)
  /\ pc' = "found"
  /\ UNCHANGED <<KEYWORDS, trendVars, allSettled, matches, searchVars, brandVars, pageVars>>

SearchKeywords ==
  /\ pc = "idle"
  /\ \E q \in Queries : keyword' = q /\ matches' = searchKeywords(q)
  /\ pc' = "searched"
  /\ UNCHANGED <<KEYWORDS, trendVars, allSettled, found, searchVars, brandVars, pageVars>>

ReturnLookup ==
  /\ pc \in {"found", "searched"}
  /\ pc' = "idle"
  /\ keyword' = ""
  /\ found' = Nil
  /\ matches' = <<>>
  /\ UNCHANGED <<KEYWORDS, trendVars, allSettled, searchVars, brandVars, pageVars>>

NextLookup ==
  \/ FindKeyword
  \/ SearchKeywords
  \/ ReturnLookup

SpecLookup == InitLookup /\ [][NextLookup]_vars

\* ---------------------------------------------------------------- claims: lookup

IsFixture == KEYWORDS = MapBuild(RAW_KEYWORDS)

KeywordIndexes == 1..Len(KEYWORDS)

Least(S) == CHOOSE i \in S : \A j \in S : i <= j

\* The three tiers for the text q: the keywords equal to q, starting with q and
\* containing q, all ignoring the keywords' case.
ExactTier(q) == { i \in KeywordIndexes : ToLowerCase(KEYWORDS[i].keyword) = q }

PrefixTier(q) == { i \in KeywordIndexes : StartsWith(ToLowerCase(KEYWORDS[i].keyword), q) }

SubstringTier(q) == { i \in KeywordIndexes : Includes(ToLowerCase(KEYWORDS[i].keyword), q) }

TiersGive(q, result) ==
  IF ExactTier(q) # {} THEN \E i \in ExactTier(q) : result = KEYWORDS[i]
  ELSE IF PrefixTier(q) # {} THEN result = KEYWORDS[Least(PrefixTier(q))]
  ELSE IF SubstringTier(q) # {} THEN result = KEYWORDS[Least(SubstringTier(q))]
  ELSE result = Nil

\* C8 as stated: the tiers are applied to the query itself, ignoring case.
C8_TiersOnRawQuery ==
  (pc = "found" /\ IsFixture) => TiersGive(ToLowerCase(keyword), found)

\* C8, amended: findKeyword applies the three tiers, in strict precedence, to
\* the query lower-cased and trimmed of surrounding white space; it returns none
\* only when no keyword matches in any tier; for "protein" against the fixture
\* it returns "protein powder".
C8_TiersOnTrimmedQuery ==
  pc = "found" =>
    /\ TiersGive(Trim(ToLowerCase(keyword)), found)
    /\ (IsFixture /\ keyword = "protein") => found.keyword = "protein powder"

\* An exact match is returned although an earlier keyword starts with the query
\* and another earlier one contains it.
C8_Witness ==
  /\ pc = "found"
  /\ found # Nil
  /\ ToLowerCase(found.keyword) = ToLowerCase(keyword)
  /\ \E i \in PrefixTier(ToLowerCase(keyword)) : KEYWORDS[i] # found
  /\ \E i \in SubstringTier(ToLowerCase(keyword)) \ PrefixTier(ToLowerCase(keyword)) :
       i < Least(ExactTier(ToLowerCase(keyword)))

\* The n-th keyword, in list order, among those at the positions S.
Nth(S, n) == CHOOSE i \in S : Cardinality({ j \in S : j < i }) = n - 1

ExactlyInListOrder(S, result) ==
  /\ Len(result) = Cardinality(S)
  /\ \A n \in 1..Len(result) : result[n] = KEYWORDS[Nth(S, n)]

\* C9 as stated: the keywords containing the query itself, ignoring case, and
\* all keywords for the empty query.
C9_ContainsRawQuery ==
  (pc = "searched" /\ IsFixture) =>
    ExactlyInListOrder(SubstringTier(ToLowerCase(keyword)), matches)

\* C9, amended: searchKeywords returns exactly the keywords whose text contains
\* the query lower-cased and trimmed of surrounding white space, in list order,
\* without duplicates or omissions; for a query that is empty after trimming it
\* returns all keywords.
C9_ContainsTrimmedQuery ==
  pc = "searched" =>
    /\ ExactlyInListOrder(SubstringTier(Trim(ToLowerCase(keyword))), matches)
    /\ Trim(keyword) = "" => matches = KEYWORDS

\* A search of the fixture that keeps several keywords and drops others, one of
\* them kept only because it contains the query past its start.
C9_Witness ==
  /\ pc = "searched"
  /\ IsFixture
  /\ Len(matches) >= 2
  /\ Len(matches) < Len(KEYWORDS)
  /\ \E n \in 1..Len(matches) :
       ~StartsWith(ToLowerCase(matches[n].keyword), Trim(ToLowerCase(keyword)))

\* ---------------------------------------------------------------- brand audit

Ad(id, platform, name, format, detected) ==
  [ id |-> id, platform |-> platform, advertiser_name |-> name,
    ad_format |-> format, status |-> "active", keywords_detected |-> detected ]

ADS_DATA ==
  << Ad("meta_001", "meta", "Optimum Nutrition", "video",
        << "whey protein", "gold standard", "muscle building", "protein powder" >>),
     Ad("meta_002", "meta", "Optimum Nutrition", "image",
        << "vegan protein", "plant protein", "plant-based" >>),
     Ad("meta_003", "meta", "Optimum Nutrition", "carousel",
        << "pre workout", "energy", "workout supplement" >>),
     Ad("tiktok_001", "tiktok", "Optimum Nutrition Official", "video",
        << "protein", "fitness", "gym", "gold standard" >>),
     Ad("google_001", "google", "Optimum Nutrition", "text",
        << "whey protein", "gold standard whey", "protein powder", "ON whey" >>),
     Ad("google_002", "google", "Optimum Nutrition", "text",
        << "pre workout", "best pre workout", "workout supplement" >>),
     Ad("google_003", "google", "Optimum Nutrition", "image",
        << "creatine", "creatine monohydrate", "micronized creatine" >>) >>

ALL_AD_KEYWORDS ==
  << "whey protein", "gold standard", "muscle building", "protein powder",
     "vegan protein", "plant protein", "plant-based", "ON whey",
     "pre workout", "best pre workout", "workout supplement",
     "creatine", "creatine monohydrate", "fitness", "gym" >>

getBrandAdsLocal(dom) ==
  IF Includes(ToLowerCase(dom), "optimumnutrition")
  THEN [ brand_name |-> "Optimum Nutrition", brand_domain |-> dom, ads |-> ADS_DATA ]
  ELSE [ brand_name |-> dom, brand_domain |-> dom, ads |-> <<>> ]

getAdKeywords == ALL_AD_KEYWORDS

\* brandAds.ads.some((a) => a.platform === platform)
HasAdOn(ads, platform) == \E i \in 1..Len(ads) : ads[i].platform = platform

\* demand[p] ?? 0
DemandOn(demand, p) == IF Has(demand, p) THEN Get(demand, p) ELSE 0

RECURSIVE SumDemand(_, _)
SumDemand(demand, i) ==
  IF i > Len(demand) THEN 0 ELSE demand[i][2] + SumDemand(demand, i + 1)

CoveredDemand_AllOfIt(demand, i, hasMeta, hasGoogle, hasTiktok) == SumDemand(demand, i)

RECURSIVE CoveredDemand_NoFacebook(_, _, _, _, _)
CoveredDemand_NoFacebook(demand, i, hasMeta, hasGoogle, hasTiktok) ==
  IF i > Len(demand) THEN 0
  ELSE LET p == demand[i][1]
           v == demand[i][2]
           counted == \/ p = "google" /\ hasGoogle
                      \/ p = "tiktok" /\ hasTiktok
                      \/ p = "instagram" /\ hasMeta
       IN  (IF counted THEN v ELSE 0)
             + CoveredDemand_NoFacebook(demand, i + 1, hasMeta, hasGoogle, hasTiktok)

\* The reduce that adds up the demand of the platforms the brand advertises on.
RECURSIVE CoveredDemand(_, _, _, _, _)
CoveredDemand(demand, i, hasMeta, hasGoogle, hasTiktok) ==
  IF i > Len(demand) THEN 0
  ELSE LET p == demand[i][1]
           v == demand[i][2]
           counted == \/ p = "google" /\ hasGoogle
                      \/ p = "tiktok" /\ hasTiktok
                      \/ p \in {"instagram", "facebook"} /\ hasMeta
       IN  (IF counted THEN v ELSE 0)
             + CoveredDemand(demand, i + 1, hasMeta, hasGoogle, hasTiktok)

\* gapScore * 10 is computed in double precision as ((u / t) * 100) * 10.  When
\* u / t * 1000 is exactly k + 1/2 the quotient u / t is (2k + 1) / 2000, which
\* a double holds only approximately unless it is a multiple of 1/16 in the
\* right way, and the two products can land just below k + 1/2: Math.round then
\* gives k, not k + 1.  These are the k (0 <= k < 1000) for which the IEEE 754
\* evaluation of ((2k + 1) / 2000) * 100 * 10 is below k + 1/2.  Away from such
\* a tie the exact value is at least 1 / (2t) from k + 1/2, far more than the
\* rounding error of three double operations for any total below 10^12.
TieFallsShort ==
  { 5, 29, 51, 59, 70, 72, 86, 90, 105, 120, 142, 173, 175, 178, 203, 205, 208,
    213, 235, 238, 243, 282, 284, 287, 344, 348, 349, 354, 359, 364, 408, 409,
    413, 414, 419, 424, 469, 473, 474, 479, 484, 489, 501, 502, 503, 504, 506,
    507, 508, 509, 512, 517, 626, 627, 631, 632, 637, 641, 646, 651, 656, 661,
    666, 751, 754, 756, 759, 761, 764, 766, 771, 776, 781, 786, 791, 876, 879,
    881, 884, 886, 889, 891, 896, 901, 906, 911, 916 }

\* Math.round of a value whose floor is q and whose fraction is r / t.
RoundHalf(q, r, t) ==
  IF 2 * r > t THEN q + 1
  ELSE IF 2 * r < t THEN q
  ELSE IF q \in TieFallsShort THEN q ELSE q + 1

\* u / t to the given number of decimal digits, by long division: q is the
\* quotient so far (scaled), r the remainder so far.
RECURSIVE LongDivide(_, _, _, _)
LongDivide(r, t, q, digits) ==
  IF digits = 0 THEN [ q |-> q, r |-> r ]
  ELSE LongDivide((r * 10) % t, t, q * 10 + (r * 10) \div t, digits - 1)

RoundedPerMille_Floor(u, t) == LongDivide(u % t, t, u \div t, 3).q

\* Math.round((u / t) * 100 * 10) for 0 <= u <= t, t > 0.
RoundedPerMille(u, t) ==
  LET d == LongDivide(u % t, t, u \div t, 3)
  IN  RoundHalf(d.q, d.r, t)

gap_score_OfCovered(totalDemand, coveredDemand) ==
  IF totalDemand > 0
  THEN Frac(RoundedPerMille(coveredDemand, totalDemand), 10)
  ELSE Frac(0, 1)

\* gapScore = totalDemand > 0 ? ((totalDemand - coveredDemand) / totalDemand) * 100 : 0
\* and gap_score: Math.round(gapScore * 10) / 10.
gap_score(totalDemand, coveredDemand) ==
  IF totalDemand > 0
  THEN Frac(RoundedPerMille(totalDemand - coveredDemand, totalDemand), 10)
  ELSE Frac(0, 1)

\* The body of keywords.map(...) in runBrandCoverage.
AuditOf(dom, text, hasMeta, hasGoogle, hasTiktok, adKeywords) ==
  LET kwData == findKeyword(text)
      demand ==
        IF kwData # Nil
        THEN [ i \in 1..Len(kwData.platforms) |->
                 << kwData.platforms[i][1], kwData.platforms[i][2].volume >> ]
        ELSE <<>>
      totalDemand == SumDemand(demand, 1)
      kwLower == ToLowerCase(text)
      inAdKeywords ==
        \E i \in 1..Len(adKeywords) :
          Includes(kwLower, adKeywords[i]) \/ Includes(adKeywords[i], kwLower)
      coverage ==
        [ meta_ads          |-> hasMeta,
          google_ads        |-> hasGoogle,
          tiktok_ads        |-> hasTiktok,
          keyword_in_meta   |-> inAdKeywords /\ hasMeta,
          keyword_in_google |-> inAdKeywords /\ hasGoogle ]
      uncovered ==
        (IF ~hasTiktok /\ DemandOn(demand, "tiktok") > 0 THEN << "TikTok" >> ELSE <<>>)
        \o (IF ~hasMeta /\ DemandOn(demand, "instagram") > 0
            THEN << "Instagram" >> ELSE <<>>)
        \o (IF ~inAdKeywords /\ DemandOn(demand, "google") > 0
            THEN << "Google (keyword gap)" >> ELSE <<>>)
      coveredDemand == CoveredDemand(demand, 1, hasMeta, hasGoogle, hasTiktok)
      recommendation ==
        IF Len(uncovered) > 0
        THEN "High demand on " \o Join(uncovered, ", ")
               \o " but limited ad presence. Consider expanding paid coverage."
        ELSE "Good coverage across active platforms."
  IN  [ brand_name          |-> dom,
        keyword             |-> text,
        demand              |-> demand,
        coverage            |-> coverage,
        gap_score           |-> gap_score(totalDemand, coveredDemand),
        recommendation      |-> recommendation,
        total_demand        |-> totalDemand,
        covered_demand      |-> coveredDemand,
        uncovered_platforms |-> uncovered ]

runBrandCoverage(dom, keywords) ==
  LET brandAds   == getBrandAdsLocal(dom)
      adKeywords == getAdKeywords
      hasMeta    == HasAdOn(brandAds.ads, "meta")
      hasGoogle  == HasAdOn(brandAds.ads, "google")
      hasTiktok  == HasAdOn(brandAds.ads, "tiktok")
  IN  [ i \in 1..Len(keywords) |->
          AuditOf(dom, keywords[i], hasMeta, hasGoogle, hasTiktok, adKeywords) ]

\* for (const ad of brandAds.ads) adPresence[ad.platform] = (... ?? 0) + 1
RECURSIVE AdPresence(_, _, _)
AdPresence(ads, i, acc) ==
  IF i > Len(ads) THEN acc
  ELSE AdPresence(ads, i + 1,
         Put(acc, ads[i].platform, DemandOn(acc, ads[i].platform) + 1))

RECURSIVE AddPlatforms_Overwrite(_, _, _)
AddPlatforms_Overwrite(platforms, i, acc) ==
  IF i > Len(platforms) THEN acc
  ELSE AddPlatforms_Overwrite(platforms, i + 1,
         Put(acc, platforms[i][1], platforms[i][2].volume))

\* for (const [p, pd] of Object.entries(kwData.platforms))
\*   totalDemand[p] = (totalDemand[p] ?? 0) + pd.volume
RECURSIVE AddPlatforms(_, _, _)
AddPlatforms(platforms, i, acc) ==
  IF i > Len(platforms) THEN acc
  ELSE AddPlatforms(platforms, i + 1,
         Put(acc, platforms[i][1], DemandOn(acc, platforms[i][1]) + platforms[i][2].volume))

\* for (const kw of keywords) { const kwData = findKeyword(kw); if (kwData) ... }
RECURSIVE TotalDemand(_, _, _)
TotalDemand(keywords, i, acc) ==
  IF i > Len(keywords) THEN acc
  ELSE LET kwData == findKeyword(keywords[i])
       IN  TotalDemand(keywords, i + 1,
             IF kwData # Nil THEN AddPlatforms(kwData.platforms, 1, acc) ELSE acc)

\* Array.prototype.sort is stable: an entry goes before the first entry the
\* comparator ([, a], [, b]) => b - a puts it strictly ahead of, scanning the
\* already sorted entries from the back.
RECURSIVE InsertByDemand(_, _)
InsertByDemand(sorted, e) ==
  IF Len(sorted) = 0 THEN << e >>
  ELSE IF sorted[Len(sorted)][2] >= e[2] THEN Append(sorted, e)
  ELSE Append(InsertByDemand(SubSeq(sorted, 1, Len(sorted) - 1), e), sorted[Len(sorted)])

RECURSIVE SortByDemandFrom(_, _, _)
SortByDemandFrom(entries, i, sorted) ==
  IF i > Len(entries) THEN sorted
  ELSE SortByDemandFrom(entries, i + 1, InsertByDemand(sorted, entries[i]))

topPlatform_Last(totalDemand) ==
  LET sorted == SortByDemandFrom(totalDemand, 1, <<>>)
  IN  IF Len(sorted) = 0 THEN "unknown" ELSE sorted[Len(sorted)][1]

\* Object.entries(totalDemand).sort(([, a], [, b]) => b - a)[0]?.[0] ?? "unknown"
topPlatform(totalDemand) ==
  LET sorted == SortByDemandFrom(totalDemand, 1, <<>>)
  IN  IF Len(sorted) = 0 THEN "unknown" ELSE sorted[1][1]

AD_PLATFORMS == << "meta", "google", "tiktok" >>

coverageStatus(adPresence) ==
  [ i \in 1..Len(AD_PLATFORMS) |->
      << AD_PLATFORMS[i],
         IF DemandOn(adPresence, AD_PLATFORMS[i]) > 0 THEN "active" ELSE "inactive" >> ]

runBrandSummary(dom, keywords) ==
  LET brandAds    == getBrandAdsLocal(dom)
      adPresence  == AdPresence(brandAds.ads, 1, <<>>)
      totalDemand == TotalDemand(keywords, 1, <<>>)
  IN  [ brand_domain             |-> dom,
        keywords_analyzed        |-> Len(keywords),
        ad_presence              |-> adPresence,
        total_demand_by_platform |-> totalDemand,
        coverage_status          |-> coverageStatus(adPresence),
        top_demand_platform      |-> topPlatform(totalDemand) ]

\* ---------------------------------------------------------------- brand audit calls

MaxAudited == 2

Domains == { "optimumnutrition.com", "www.OptimumNutrition.com", "example.com" }

\* The keywords audited.  Over the fixture: a keyword typed in full, a substring
\* of one, a prefix of one, the text of an ad keyword, a prefix in capitals, an
\* unknown keyword and the empty text.  Over the other keyword list: its
\* keywords, an unknown keyword and the empty text.
AuditKeywords ==
  IF IsFixture
  THEN { "protein powder", "shake", "amazon", "ON whey", "Gym", "zzz", "" }
  ELSE { "only", "dead", "facebook", "tie", "half", "solo", "zzz", "" }

RECURSIVE ListsUpTo(_)
ListsUpTo(n) ==
  IF n = 0 THEN { <<>> }
  ELSE LET shorter == ListsUpTo(n - 1)
       IN  shorter \cup { Append(l, k) : l \in shorter, k \in AuditKeywords }

\* The index an audit looks keywords up in: the fixture, and a list whose
\* records have demand only where no ad platform maps to, no demand at all,
\* demand on facebook, or demand on google alone.
BrandKeywordLists ==
  { MapBuild(RAW_KEYWORDS),
    MapBuild(<< [ keyword |-> "only youtube",
                  platforms |-> << <<"youtube", Flat(1000)>>, <<"amazon", Flat(200)>> >> ],
                [ keyword |-> "dead",
                  platforms |-> << <<"google", Flat(0)>>, <<"tiktok", Flat(0)>> >> ],
                [ keyword |-> "facebook",
                  platforms |-> << <<"facebook", Flat(1000)>>, <<"instagram", Flat(200)>>,
                                   <<"bing", Flat(201)>> >> ],
                [ keyword |-> "tie",
                  platforms |-> << <<"google", Flat(57)>>, <<"youtube", Flat(23)>> >> ],
                [ keyword |-> "half",
                  platforms |-> << <<"youtube", Flat(1)>>, <<"google", Flat(15)>> >> ],
                [ keyword |-> "solo",
                  platforms |-> << <<"google", Flat(500)>> >> ] >>) }

InitBrand ==
  /\ KEYWORDS \in BrandKeywordLists
  /\ pc = "idle"
  /\ keyword = ""
  /\ response = Nil
  /\ allSettled = Nil
  /\ monthly = Nil
  /\ trend = <<>>
  /\ kw = Nil
  /\ analysis = Nil
  /\ error = NULL
  /\ found = Nil
  /\ matches = <<>>
  /\ domain = ""
  /\ audited = <<>>
  /\ audits = <<>>
  /\ summary = Nil
  /\ PageFresh

RunBrandCoverage ==
  /\ pc = "idle"
  /\ \E d \in Domains : \E ks \in ListsUpTo(MaxAudited) :
       /\ domain' = d
       /\ audited' = ks
       /\ audits' = runBrandCoverage(d, ks)
  /\ pc' = "audited"
  /\ UNCHANGED <<KEYWORDS, trendVars, allSettled, keyword, searchVars, lookupVars, pageVars, summary>>

RunBrandSummary ==
  /\ pc = "idle"
  /\ \E d \in Domains : \E ks \in ListsUpTo(MaxAudited) :
       /\ domain' = d
       /\ audited' = ks
       /\ summary' = runBrandSummary(d, ks)
  /\ pc' = "summarised"
  /\ UNCHANGED <<KEYWORDS, trendVars, allSettled, keyword, searchVars, lookupVars, pageVars, audits>>

ReturnBrand ==
  /\ pc \in {"audited", "summarised"}
  /\ pc' = "idle"
  /\ domain' = ""
  /\ audited' = <<>>
  /\ audits' = <<>>
  /\ summary' = Nil
  /\ UNCHANGED <<KEYWORDS, trendVars, allSettled, keyword, searchVars, lookupVars, pageVars>>

NextBrand ==
  \/ RunBrandCoverage
  \/ RunBrandSummary
  \/ ReturnBrand

SpecBrand == InitBrand /\ [][NextBrand]_vars

\* ---------------------------------------------------------------- claims: brand audit

Audited == pc = "audited"

\* C10: every audit reports gap_score 0 when total_demand is 0, and gap_score
\* 100 when covered_demand is 0 and total_demand > 0.
C10_GapScoreEnds ==
  Audited =>
    \A i \in 1..Len(audits) :
      /\ audits[i].total_demand = 0 => audits[i].gap_score = [ num |-> 0, den |-> 1 ]
      /\ (audits[i].covered_demand = 0 /\ audits[i].total_demand > 0) =>
           audits[i].gap_score = [ num |-> 100, den |-> 1 ]

\* For a brand with ads on every ad platform: a keyword unknown to the index
\* (no demand at all) audited beside one whose demand lies only on platforms no
\* ad platform covers.
C10_Witness ==
  /\ Audited
  /\ Len(getBrandAdsLocal(domain).ads) > 0
  /\ \E i \in 1..Len(audits) :
       /\ audits[i].total_demand = 0
       /\ audits[i].gap_score = [ num |-> 0, den |-> 1 ]
  /\ \E i \in 1..Len(audits) :
       /\ audits[i].total_demand > 0
       /\ audits[i].covered_demand = 0
       /\ audits[i].gap_score = [ num |-> 100, den |-> 1 ]

C10_WitnessNoAds ==
  /\ Audited
  /\ IsFixture
  /\ Len(getBrandAdsLocal(domain).ads) = 0
  /\ \E i \in 1..Len(audits) :
       /\ audits[i].total_demand > 0
       /\ audits[i].gap_score = [ num |-> 100, den |-> 1 ]


\* ---------------------------------------------------------------- API clients

\* getCrossPlatformKeyword of the local client.
localGetCrossPlatformKeyword(k) ==
  LET result == findKeyword(k)
  IN  IF result = Nil THEN Thrown(NotFoundMessage(k)) ELSE Returned(result)

\* analyzeOpportunity of the local client.
localAnalyzeOpportunity(k) ==
  LET rec == findKeyword(k)
  IN  IF rec = Nil
      THEN Thrown("No data found for \"" \o k \o "\".")
      ELSE Returned(analyzeKeyword(rec))

\* analyzeOpportunity of the hybrid client: the error of
\* getCrossPlatformKeyword passes through the await.
analyzeOpportunity(k, res) ==
  LET r == getCrossPlatformKeyword(k, res)
  IN  IF r.ok THEN Returned(analyzeKeyword(r.value)) ELSE r

\* ---------------------------------------------------------------- dashboard page

\* Bound on the handleSearch calls awaiting their response at once.
MaxInFlight == 2

\* What the form submits: the typed text, trimmed and not empty.
PageTyped == { "zzz" }

\* What a click on a suggestion searches for: a keyword of the index.
PageSuggestions == { "protein powder", "fyp fitness tips" }

ClientInputs == { "zzz", "protein", "protein powder", "" }

\* What the one request can settle with: fetch throws, the route answers 500
\* (no credentials), 200 with no platform, or 200 with google data.
PageResponses(k) ==
  { FetchThrew,
    GET(k, FALSE, Fulfilled(<<>>), Fulfilled(<<>>), Fulfilled(<<>>)),
    GET(k, TRUE, Fulfilled(<<>>), Rejected("Error: DataForSEO 500: "), Fulfilled(<<>>)),
    GET(k, TRUE, Fulfilled(<< <<ToLowerCase(k), VendorDatum(1200)>> >>),
        Fulfilled(<<>>), Fulfilled(<<>>)) }

Pending == [ pending |-> TRUE ]

RemoveAt(seq, i) == SubSeq(seq, 1, i - 1) \o SubSeq(seq, i + 1, Len(seq))

\* handleSearch(keyword) up to its await.
BeginSearch(k) ==
  /\ loading' = TRUE
  /\ pageError' = NULL
  /\ searchedKeyword' = k
  /\ calls' = Append(calls, [ keyword |-> k, response |-> Pending ])
  /\ UNCHANGED <<keywordData, opportunities>>

\* SearchBar.handleSubmit: the button is disabled while loading.
Submit ==
  /\ pc = "idle"
  /\ ~loading
  /\ Len(calls) < MaxInFlight
  /\ \E k \in PageTyped : BeginSearch(k)
  /\ UNCHANGED <<KEYWORDS, trendVars, allSettled, pc, keyword, searchVars, lookupVars, brandVars>>

\* SearchBar.handleSelect: a suggestion can be clicked at any time.
Select ==
  /\ pc = "idle"
  /\ Len(calls) < MaxInFlight
  /\ \E i \in 1..Len(KEYWORDS) :
       /\ KEYWORDS[i].keyword \in PageSuggestions
       /\ BeginSearch(KEYWORDS[i].keyword)
  /\ UNCHANGED <<KEYWORDS, trendVars, allSettled, pc, keyword, searchVars, lookupVars, brandVars>>

\* The request of one call in flight settles.
FetchSettles ==
  /\ pc = "idle"
  /\ \E i \in 1..Len(calls) :
       /\ calls[i].response = Pending
       /\ \E r \in PageResponses(calls[i].keyword) :
            calls' = [ calls EXCEPT ![i].response = r ]
  /\ UNCHANGED <<KEYWORDS, trendVars, allSettled, pc, keyword, searchVars, lookupVars, brandVars,
                 loading, pageError, keywordData, opportunities, searchedKeyword>>

\* The rest of handleSearch for call i: the try body after the await, or the
\* catch block, and the finally block.
FinishCall(i) ==
  LET r == getCrossPlatformKeyword(calls[i].keyword, calls[i].response)
  IN  /\ IF r.ok
         THEN /\ keywordData' = r.value
              /\ opportunities' = analyzeKeyword(r.value)
              /\ UNCHANGED pageError
         ELSE /\ pageError' = r.message
              /\ keywordData' = Nil
              /\ opportunities' = Nil
      /\ loading' = FALSE
      /\ calls' = RemoveAt(calls, i)
      /\ UNCHANGED searchedKeyword

Finish ==
  /\ pc = "idle"
  /\ \E i \in 1..Len(calls) :
       /\ calls[i].response # Pending
       /\ FinishCall(i)
  /\ UNCHANGED <<KEYWORDS, trendVars, allSettled, pc, keyword, searchVars, lookupVars, brandVars>>

\* A direct call of the local client's getCrossPlatformKeyword.
CallLocalGet ==
  /\ pc = "idle"
  /\ PageFresh
  /\ \E k \in ClientInputs :
       LET r == localGetCrossPlatformKeyword(k)
       IN  /\ keyword' = k
           /\ kw' = IF r.ok THEN r.value ELSE Nil
           /\ error' = IF r.ok THEN NULL ELSE r.message
  /\ pc' = "localGet"
  /\ UNCHANGED <<KEYWORDS, trendVars, allSettled, response, analysis, lookupVars, brandVars, pageVars>>

\* A direct call of the local client's analyzeOpportunity.
CallLocalAnalyze ==
  /\ pc = "idle"
  /\ PageFresh
  /\ \E k \in ClientInputs :
       LET r == localAnalyzeOpportunity(k)
       IN  /\ keyword' = k
           /\ analysis' = IF r.ok THEN r.value ELSE Nil
           /\ error' = IF r.ok THEN NULL ELSE r.message
  /\ pc' = "localAnalyze"
  /\ UNCHANGED <<KEYWORDS, trendVars, allSettled, response, kw, lookupVars, brandVars, pageVars>>

\* A direct call of the hybrid client's getCrossPlatformKeyword.
CallHybridGet ==
  /\ pc = "idle"
  /\ PageFresh
  /\ \E k \in ClientInputs : \E res \in PageResponses(k) :
       LET r == getCrossPlatformKeyword(k, res)
       IN  /\ keyword' = k
           /\ response' = res
           /\ kw' = IF r.ok THEN r.value ELSE Nil
           /\ error' = IF r.ok THEN NULL ELSE r.message
  /\ pc' = "hybridGet"
  /\ UNCHANGED <<KEYWORDS, trendVars, allSettled, analysis, lookupVars, brandVars, pageVars>>

\* A direct call of the hybrid client's analyzeOpportunity.
CallAnalyzeOpportunity ==
  /\ pc = "idle"
  /\ PageFresh
  /\ \E k \in ClientInputs : \E res \in PageResponses(k) :
       LET r == analyzeOpportunity(k, res)
       IN  /\ keyword' = k
           /\ response' = res
           /\ analysis' = IF r.ok THEN r.value ELSE Nil
           /\ error' = IF r.ok THEN NULL ELSE r.message
  /\ pc' = "hybridAnalyze"
  /\ UNCHANGED <<KEYWORDS, trendVars, allSettled, kw, lookupVars, brandVars, pageVars>>

ReturnClient ==
  /\ pc \in {"localGet", "localAnalyze", "hybridGet", "hybridAnalyze"}
  /\ pc' = "idle"
  /\ Cleared
  /\ UNCHANGED <<KEYWORDS, trendVars, lookupVars, brandVars, pageVars>>

NextPage ==
  \/ Submit
  \/ Select
  \/ FetchSettles
  \/ Finish
  \/ CallLocalGet
  \/ CallLocalAnalyze
  \/ CallHybridGet
  \/ CallAnalyzeOpportunity
  \/ ReturnClient

SpecPage == Init /\ [][NextPage]_vars

\* ---------------------------------------------------------------- the core alone

\* analyzeKeyword, runBrandCoverage and runBrandSummary called directly.
NextCore ==
  \/ UseFixture
  \/ BuildRaw
  \/ Analyze
  \/ Return
  \/ RunBrandCoverage
  \/ RunBrandSummary
  \/ ReturnBrand

SpecCore == Init /\ [][NextCore]_vars

\* ---------------------------------------------------------------- repeated calls

\* A caller that holds a result calls the same function again with the same
\* arguments.  Each function reads the index and its arguments as the first
\* call left them.

AnalyzeAgain ==
  /\ pc = "analyzed"
  /\ analysis' = analyzeKeyword(kw)
  /\ pc' = "analyzed again"
  /\ UNCHANGED <<KEYWORDS, trendVars, allSettled, keyword, response, kw, error, lookupVars, brandVars, pageVars>>

FindKeywordAgain ==
  /\ pc = "found"
  /\ found' = findKeyword(keyword)
  /\ pc' = "found again"
  /\ UNCHANGED <<KEYWORDS, trendVars, allSettled, keyword, matches, searchVars, brandVars, pageVars>>

SearchKeywordsAgain ==
  /\ pc = "searched"
  /\ matches' = searchKeywords(keyword)
  /\ pc' = "searched again"
  /\ UNCHANGED <<KEYWORDS, trendVars, allSettled, keyword, found, searchVars, brandVars, pageVars>>

RunBrandCoverageAgain ==
  /\ pc = "audited"
  /\ audits' = runBrandCoverage(domain, audited)
  /\ pc' = "audited again"
  /\ UNCHANGED <<KEYWORDS, trendVars, allSettled, keyword, searchVars, lookupVars, pageVars, domain, audited, summary>>

RunBrandSummaryAgain ==
  /\ pc = "summarised"
  /\ summary' = runBrandSummary(domain, audited)
  /\ pc' = "summarised again"
  /\ UNCHANGED <<KEYWORDS, trendVars, allSettled, keyword, searchVars, lookupVars, pageVars, domain, audited, audits>>

ReturnAgain ==
  /\ pc \in { "analyzed again", "found again", "searched again", "audited again",
              "summarised again" }
  /\ pc' = "idle"
  /\ Cleared
  /\ found' = Nil
  /\ matches' = <<>>
  /\ domain' = ""
  /\ audited' = <<>>
  /\ audits' = <<>>
  /\ summary' = Nil
  /\ UNCHANGED <<KEYWORDS, trendVars, pageVars>>

NextRepeat ==
  \/ UseFixture
  \/ BuildRaw
  \/ Analyze
  \/ AnalyzeAgain
  \/ FindKeyword
  \/ FindKeywordAgain
  \/ SearchKeywords
  \/ SearchKeywordsAgain
  \/ RunBrandCoverage
  \/ RunBrandCoverageAgain
  \/ RunBrandSummary
  \/ RunBrandSummaryAgain
  \/ ReturnAgain

SpecRepeat == Init /\ [][NextRepeat]_vars

\* ---------------------------------------------------------------- the route: trends

\* One MonthlySearch entry.
MonthlySearch(year, month, volume) ==
  [ year |-> year, month |-> month, search_volume |-> volume ]

\* An entry whose search_volume is null or missing.
MonthWithoutVolume(year, month) == [ year |-> year, month |-> month ]

\* m.search_volume ?? 0
VolumeOrZero(m) == IF "search_volume" \in DOMAIN m THEN m.search_volume ELSE 0

CompareMonths_MonthOnly(a, b) == a.month - b.month

\* a.year - b.year || a.month - b.month
CompareMonths(a, b) ==
  IF a.year - b.year # 0 THEN a.year - b.year ELSE a.month - b.month

\* Array.prototype.sort is stable: an entry goes after the entries it does not
\* come before.
InsertByMonth(sorted, e) ==
  LET after == { i \in 1..Len(sorted) : CompareMonths(e, sorted[i]) < 0 }
      at    == IF after = {} THEN Len(sorted) + 1
               ELSE CHOOSE i \in after : \A j \in after : i <= j
  IN  SubSeq(sorted, 1, at - 1) \o << e >> \o SubSeq(sorted, at, Len(sorted))

RECURSIVE SortByMonthFrom(_, _, _)
SortByMonthFrom(entries, i, sorted) ==
  IF i > Len(entries) THEN sorted
  ELSE SortByMonthFrom(entries, i + 1, InsertByMonth(sorted, entries[i]))

TREND_LENGTH == 12

\* .slice(-12)
SliceLast(seq, n) == SubSeq(seq, Max(1, Len(seq) - n + 1), Len(seq))

\* A list given for monthly_searches (Nil stands for null).
Listed(entries) == [ entries |-> entries ]

extractTrend(given) ==
  IF given = Nil \/ Len(given.entries) = 0 THEN <<>>
  ELSE LET sorted == SliceLast(SortByMonthFrom(given.entries, 1, <<>>), TREND_LENGTH)
       IN  [ i \in 1..Len(sorted) |-> VolumeOrZero(sorted[i]) ]

MaxMonths == 13

\* The i-th month counted from November 2023, with a volume of its own.
MonthNo(i) ==
  MonthlySearch(2023 + ((i + 9) \div 12), ((i + 9) % 12) + 1, 100 * i)

Months(from, n) == [ i \in 1..n |-> MonthNo(from + i - 1) ]

Rotated(seq, k) == SubSeq(seq, k + 1, Len(seq)) \o SubSeq(seq, 1, k)

Reversed(seq) == [ i \in 1..Len(seq) |-> seq[Len(seq) + 1 - i] ]

\* Entries of one month twice, of a month without a volume, and of two years.
OddEntries ==
  { MonthlySearch(2024, 1, 5), MonthlySearch(2024, 1, 7), MonthlySearch(2023, 12, 9),
    MonthWithoutVolume(2024, 2) }

\* The lists extractTrend is given: null, runs of consecutive months in every
\* rotation and reversed, and short lists of the odd entries.
MonthlyInputs ==
  { Nil }
  \cup UNION { { Listed(Rotated(Months(1, n), k)) : k \in 0..n } : n \in 0..MaxMonths }
  \cup { Listed(Reversed(Months(from, n))) : n \in 0..MaxMonths, from \in 1..3 }
  \cup { Listed(<< a >>) : a \in OddEntries }
  \cup { Listed(<< a, b >>) : a \in OddEntries, b \in OddEntries }
  \cup { Listed(<< a, b, c >>) : a \in OddEntries, b \in OddEntries, c \in OddEntries }

ExtractTrend ==
  /\ pc = "idle"
  /\ \E m \in MonthlyInputs :
       /\ monthly' = m
       /\ trend' = extractTrend(m)
  /\ pc' = "extracted"
  /\ UNCHANGED <<KEYWORDS, allSettled, keyword, searchVars, lookupVars, brandVars, pageVars>>

ReturnTrend ==
  /\ pc = "extracted"
  /\ pc' = "idle"
  /\ monthly' = Nil
  /\ trend' = <<>>
  /\ UNCHANGED <<KEYWORDS, allSettled, keyword, searchVars, lookupVars, brandVars, pageVars>>

NextTrend ==
  \/ ExtractTrend
  \/ ReturnTrend

SpecTrend == Init /\ [][NextTrend]_vars

\* ---------------------------------------------------------------- claims: coverage

AdsOf(dom) == getBrandAdsLocal(dom).ads

\* Every platform key a keyword record of the model can carry.
AllPlatformKeys ==
  { PLATFORM_KEYS[i] : i \in 1..Len(PLATFORM_KEYS) } \cup { "facebook" }

KeysOf(obj) == { obj[i][1] : i \in 1..Len(obj) }

RECURSIVE SumOverKeys(_, _)
SumOverKeys(obj, keys) ==
  IF keys = {} THEN 0
  ELSE LET k == CHOOSE x \in keys : TRUE
       IN  DemandOn(obj, k) + SumOverKeys(obj, keys \ {k})

\* C11: covered_demand is google demand if the brand has a google ad, plus
\* tiktok demand if it has a tiktok ad, plus instagram and facebook demand if it
\* has a meta ad, and nothing for any other platform; total_demand is the sum
\* of all entries of the demand map.
C11_CoveredDemand ==
  Audited =>
    \A i \in 1..Len(audits) :
      LET a == audits[i]
          g == IF HasAdOn(AdsOf(domain), "google") THEN DemandOn(a.demand, "google") ELSE 0
          t == IF HasAdOn(AdsOf(domain), "tiktok") THEN DemandOn(a.demand, "tiktok") ELSE 0
          m == IF HasAdOn(AdsOf(domain), "meta")
               THEN DemandOn(a.demand, "instagram") + DemandOn(a.demand, "facebook")
               ELSE 0
      IN  /\ a.covered_demand = g + t + m
          /\ KeysOf(a.demand) \subseteq AllPlatformKeys
          /\ Cardinality(KeysOf(a.demand)) = Len(a.demand)
          /\ a.total_demand = SumOverKeys(a.demand, AllPlatformKeys)

\* A brand with meta ads audited on a keyword with facebook demand, instagram
\* demand and demand on a platform without ads (bing): the covered demand is
\* the facebook and instagram demand only.
C11_Witness ==
  /\ Audited
  /\ HasAdOn(AdsOf(domain), "meta")
  /\ \E i \in 1..Len(audits) :
       /\ DemandOn(audits[i].demand, "facebook") > 0
       /\ DemandOn(audits[i].demand, "instagram") > 0
       /\ DemandOn(audits[i].demand, "bing") > 0
       /\ audits[i].covered_demand =
            DemandOn(audits[i].demand, "facebook") + DemandOn(audits[i].demand, "instagram")
       /\ audits[i].covered_demand < audits[i].total_demand

\* gap_score in tenths, when it has at most one decimal digit.
Tenths(g) == (g.num * 10) \div g.den

\* n / 10 is within 0.05 of u / t * 100: (2n - 1) / 2000 <= u / t <= (2n + 1) / 2000.
NearestTenth(n, u, t) ==
  /\ n >= 1 => FracLeq([ num |-> 2 * n - 1, den |-> 2000 ], [ num |-> u, den |-> t ])
  /\ FracLeq([ num |-> u, den |-> t ], [ num |-> 2 * n + 1, den |-> 2000 ])

\* u / t * 100 lies exactly half way between two tenths.
IsTie(u, t) ==
  \E k \in 0..999 : FracEq([ num |-> u, den |-> t ], [ num |-> 2 * k + 1, den |-> 2000 ])

\* C12: with total_demand > 0, gap_score is (total_demand - covered_demand) /
\* total_demand * 100 rounded to one decimal place (a tenth nearest to the exact
\* value; on the fixture, where the doubles are exact at the one tie, the upper
\* one); covered_demand never exceeds total_demand and gap_score is in [0, 100].
C12_GapScoreRounded ==
  Audited =>
    \A i \in 1..Len(audits) :
      LET a == audits[i]
          t == a.total_demand
          u == a.total_demand - a.covered_demand
          n == Tenths(a.gap_score)
      IN  /\ a.covered_demand >= 0
          /\ a.covered_demand <= t
          /\ (a.gap_score.num * 10) % a.gap_score.den = 0
          /\ 0 <= n /\ n <= 1000
          /\ t > 0 => NearestTenth(n, u, t)
          /\ (t > 0 /\ IsFixture) =>
               FracLt([ num |-> u, den |-> t ], [ num |-> 2 * n + 1, den |-> 2000 ])

\* An audit whose exact score is not a whole number of tenths and is neither 0
\* nor 100.
C12_Witness ==
  /\ Audited
  /\ \E i \in 1..Len(audits) :
       LET a == audits[i]
           u == a.total_demand - a.covered_demand
       IN  /\ a.total_demand > 0
           /\ 0 < a.covered_demand /\ a.covered_demand < a.total_demand
           /\ LongDivide(u % a.total_demand, a.total_demand, 0, 3).r # 0
           /\ ~IsTie(u, a.total_demand)

\* The fixture's tie: 268000 of 320000 uncovered is 83.75, reported as 83.8.
C12_WitnessFixtureTie ==
  /\ Audited
  /\ IsFixture
  /\ \E i \in 1..Len(audits) :
       /\ audits[i].total_demand = 320000
       /\ audits[i].covered_demand = 52000
       /\ audits[i].gap_score = [ num |-> 419, den |-> 5 ]

\* A tie the doubles fall short of: 23 of 80 uncovered is 28.75, reported as 28.7.
C12_WitnessTieShort ==
  /\ Audited
  /\ \E i \in 1..Len(audits) :
       /\ audits[i].total_demand = 80
       /\ audits[i].covered_demand = 57
       /\ audits[i].gap_score = [ num |-> 287, den |-> 10 ]

\* Case-insensitive substring match in either direction.
OverlapsIgnoringCase(a, b) ==
  \/ Includes(ToLowerCase(a), ToLowerCase(b))
  \/ Includes(ToLowerCase(b), ToLowerCase(a))

\* The keywords mentioned across the detected-keyword lists of a brand's ads.
OwnAdKeywords(dom) ==
  LET ads == AdsOf(dom)
  IN  UNION { { ads[i].keywords_detected[j] : j \in 1..Len(ads[i].keywords_detected) } :
              i \in 1..Len(ads) }

ElementsOf(seq) == { seq[i] : i \in 1..Len(seq) }

\* C13: uncovered_platforms holds "TikTok" iff the brand has no tiktok ad and
\* tiktok demand > 0, "Instagram" iff it has no meta ad and instagram demand
\* > 0, the Google keyword-gap marker iff google demand > 0 and the keyword
\* overlaps none of the keywords detected in the brand's own ads, and nothing
\* else.
C13_UncoveredPlatforms ==
  (Audited /\ IsFixture) =>
    \A i \in 1..Len(audits) :
      LET a == audits[i]
          own == OwnAdKeywords(domain)
          expected ==
            (IF ~HasAdOn(AdsOf(domain), "tiktok") /\ DemandOn(a.demand, "tiktok") > 0
             THEN { "TikTok" } ELSE {})
            \cup (IF ~HasAdOn(AdsOf(domain), "meta") /\ DemandOn(a.demand, "instagram") > 0
                  THEN { "Instagram" } ELSE {})
            \cup (IF /\ DemandOn(a.demand, "google") > 0
                     /\ \A ak \in own : ~OverlapsIgnoringCase(a.keyword, ak)
                  THEN { "Google (keyword gap)" } ELSE {})
      IN  ElementsOf(a.uncovered_platforms) = expected

\* C14: the overlap test is a case-insensitive substring match in either
\* direction, whatever the letter case of the audited keyword and of the ad
\* keyword: keyword_in_google and keyword_in_meta are set exactly when the brand
\* has such ads and the keyword overlaps one of the ad keywords.
C14_OverlapIgnoresCase ==
  (Audited /\ IsFixture) =>
    \A i \in 1..Len(audits) :
      LET a == audits[i]
          overlaps ==
            \E j \in 1..Len(getAdKeywords) : OverlapsIgnoringCase(a.keyword, getAdKeywords[j])
      IN  /\ a.coverage.keyword_in_google = (overlaps /\ HasAdOn(AdsOf(domain), "google"))
          /\ a.coverage.keyword_in_meta = (overlaps /\ HasAdOn(AdsOf(domain), "meta"))

\* ---------------------------------------------------------------- claims: summary

Summarised == pc = "summarised"

\* The records the lookup gives for the audited keywords (Nil where none).
Matched == [ i \in 1..Len(audited) |-> findKeyword(audited[i]) ]

\* The volume of platform p in a record, 0 when there is no record or no such
\* platform.
MatchedVolume(kwData, p) ==
  IF kwData # Nil /\ Has(kwData.platforms, p) THEN Get(kwData.platforms, p).volume ELSE 0

MatchedHas(kwData, p) == kwData # Nil /\ Has(kwData.platforms, p)

RECURSIVE SumMatched(_, _, _)
SumMatched(recs, i, p) ==
  IF i > Len(recs) THEN 0
  ELSE MatchedVolume(recs[i], p) + SumMatched(recs, i + 1, p)

CountAds(ads, p) == Cardinality({ i \in 1..Len(ads) : ads[i].platform = p })

\* C15: runBrandSummary returns ad_presence counting the brand's ads per ad
\* platform, total_demand_by_platform as the per-platform sum of the volumes of
\* the audited keywords the lookup matches, coverage_status "active" for meta,
\* google and tiktok iff the brand has an ad there and "inactive" otherwise, and
\* top_demand_platform a platform of maximal total demand, "unknown" when no
\* audited keyword matches.
C15_BrandSummary ==
  Summarised =>
    LET ads   == AdsOf(domain)
        total == summary.total_demand_by_platform
        recs  == Matched
    IN  /\ summary.brand_domain = domain
        /\ summary.keywords_analyzed = Len(audited)
        /\ KeysOf(summary.ad_presence) = { ads[i].platform : i \in 1..Len(ads) }
        /\ Cardinality(KeysOf(summary.ad_presence)) = Len(summary.ad_presence)
        /\ \A p \in KeysOf(summary.ad_presence) :
             Get(summary.ad_presence, p) = CountAds(ads, p)
        /\ KeysOf(total) =
             { p \in AllPlatformKeys : \E i \in 1..Len(recs) : MatchedHas(recs[i], p) }
        /\ Cardinality(KeysOf(total)) = Len(total)
        /\ \A p \in AllPlatformKeys : DemandOn(total, p) = SumMatched(recs, 1, p)
        /\ KeysOf(summary.coverage_status) = { "meta", "google", "tiktok" }
        /\ Len(summary.coverage_status) = 3
        /\ \A p \in { "meta", "google", "tiktok" } :
             Get(summary.coverage_status, p) =
               IF HasAdOn(ads, p) THEN "active" ELSE "inactive"
        /\ IF Len(total) > 0
           THEN /\ Has(total, summary.top_demand_platform)
                /\ \A p \in KeysOf(total) :
                     Get(total, p) <= Get(total, summary.top_demand_platform)
           ELSE summary.top_demand_platform = "unknown"
        /\ (\A i \in 1..Len(recs) : recs[i] = Nil) =>
             summary.top_demand_platform = "unknown"

\* A summary over two matched keywords that share a platform, for a brand with
\* ads, whose top platform is not the first one of the demand map.
C15_Witness ==
  /\ Summarised
  /\ Len(AdsOf(domain)) > 0
  /\ Len(audited) = 2
  /\ Matched[1] # Nil /\ Matched[2] # Nil
  /\ Matched[1] # Matched[2]
  /\ \E p \in AllPlatformKeys : MatchedHas(Matched[1], p) /\ MatchedHas(Matched[2], p)
  /\ Len(summary.total_demand_by_platform) > 1
  /\ summary.top_demand_platform # summary.total_demand_by_platform[1][1]
  /\ Get(summary.coverage_status, "meta") = "active"

\* A summary of keywords none of which the lookup matches, for a brand without ads.
C15_WitnessUnknown ==
  /\ Summarised
  /\ Len(audited) > 0
  /\ Len(AdsOf(domain)) = 0
  /\ summary.top_demand_platform = "unknown"
  /\ Get(summary.coverage_status, "google") = "inactive"

\* ---------------------------------------------------------------- claims: not found

\* No keyword of the index contains the query (lower-cased and trimmed), so no
\* tier of the lookup matches.
NoMatch(k) ==
  \A i \in 1..Len(KEYWORDS) :
    ~Includes(ToLowerCase(KEYWORDS[i].keyword), Trim(ToLowerCase(k)))

NoVendorData(res) ==
  \/ res = FetchThrew
  \/ ~res.ok
  \/ "platforms" \notin DOMAIN res.json
  \/ Len(res.json.platforms) = 0

NoSocialData(k) ==
  \A i \in 1..Len(KEYWORDS) :
    ToLowerCase(KEYWORDS[i].keyword) = ToLowerCase(k) =>
      \A p \in SOCIAL_KEYS : ~Has(KEYWORDS[i].platforms, p)

NamesKeyword(msg, k) == msg # NULL /\ StartsWith(msg, "No data found for \"" \o k \o "\".")

ListsKeywords(msg, k) ==
  /\ NamesKeyword(msg, k)
  /\ \A i \in 1..Len(KEYWORDS) : Includes(msg, KEYWORDS[i].keyword)

NothingFor(k, res) == NoMatch(k) /\ NoVendorData(res) /\ NoSocialData(k)

\* What the two getCrossPlatformKeyword and the hybrid analyzeOpportunity leave
\* when nothing is known about the keyword.
ThrowersListKeywords ==
  /\ (pc = "localGet" /\ NoMatch(keyword)) =>
       kw = Nil /\ ListsKeywords(error, keyword)
  /\ (pc = "hybridGet" /\ NothingFor(keyword, response)) =>
       kw = Nil /\ ListsKeywords(error, keyword)
  /\ (pc = "hybridAnalyze" /\ NothingFor(keyword, response)) =>
       analysis = Nil /\ ListsKeywords(error, keyword)

\* A handleSearch call that finds nothing ends with error set to the message
\* and keywordData and opportunities null.
FailedSearchEnds ==
  \A i \in 1..Len(calls) :
    ( /\ calls[i].response # Pending
      /\ calls' = RemoveAt(calls, i)
      /\ NothingFor(calls[i].keyword, calls[i].response) ) =>
        /\ ListsKeywords(pageError', calls[i].keyword)
        /\ keywordData' = Nil
        /\ opportunities' = Nil

\* C16 as stated: with no match in the index (and, in the hybrid client, no
\* vendor data and no social demo data) getCrossPlatformKeyword and
\* analyzeOpportunity fail with an error whose message lists the fixture
\* keywords, and return no record; in the page the error ends with error set to
\* the message and keywordData and opportunities null.
C16_NotFoundListsKeywords ==
  [][ /\ ThrowersListKeywords'
      /\ (pc' = "localAnalyze" /\ NoMatch(keyword')) =>
           (analysis' = Nil /\ ListsKeywords(error', keyword'))
      /\ FailedSearchEnds ]_vars

\* C16, amended: as stated, except that the local client's analyzeOpportunity
\* fails with the message 'No data found for "<keyword>".', which names the
\* keyword and lists nothing.
C16_NotFound ==
  [][ /\ ThrowersListKeywords'
      /\ (pc' = "localAnalyze" /\ NoMatch(keyword')) =>
           (analysis' = Nil /\ error' = "No data found for \"" \o keyword' \o "\".")
      /\ FailedSearchEnds ]_vars

\* The page after a search for an unknown keyword the vendor knows nothing
\* about has failed, with no other search in flight.
C16_Witness ==
  /\ calls = <<>>
  /\ searchedKeyword = "zzz"
  /\ ~loading
  /\ ListsKeywords(pageError, "zzz")
  /\ keywordData = Nil
  /\ opportunities = Nil

\* The hybrid client asked for an unknown keyword while the route is down.
C16_WitnessHybrid ==
  /\ pc = "hybridAnalyze"
  /\ NothingFor(keyword, response)
  /\ response = FetchThrew
  /\ analysis = Nil
  /\ ListsKeywords(error, keyword)

\* The local client's analyzeOpportunity asked for an unknown keyword.
C16_WitnessLocal ==
  /\ pc = "localAnalyze"
  /\ NoMatch(keyword)
  /\ analysis = Nil
  /\ error = "No data found for \"zzz\"."

\* ---------------------------------------------------------------- claims: totality

ZeroPlatform(key) ==
  [ platform |-> key, volume |-> 0, cpc |-> NULL, competition |-> NULL,
    trend |-> <<>>, is_estimated |-> TRUE ]

\* The record with every platform it lacks added at volume 0.
ZeroFilled(k) ==
  LET absent(key) == ~Has(k.platforms, key)
      missing == SelectSeq(PLATFORM_KEYS, absent)
  IN  [ k EXCEPT !.platforms =
          k.platforms \o [ i \in 1..Len(missing) |-> << missing[i], ZeroPlatform(missing[i]) >> ] ]

\* The record with every platform of volume 0 taken out.
ZeroStripped(k) ==
  LET present(e) == e[2].volume # 0
  IN  [ k EXCEPT !.platforms = SelectSeq(k.platforms, present) ]

\* C17: analyzeKeyword, runBrandCoverage and runBrandSummary return a result for
\* every input (no platforms, all volumes 0, missing low or high platforms,
\* empty trends, an unknown audited keyword, an empty keyword list, a domain
\* without ads), and an absent platform counts exactly like a platform of
\* volume 0: same gaps, same demand totals.
C17_Total ==
  /\ Analyzed =>
       /\ analysis # Nil
       /\ analysis.keyword = kw.keyword
       /\ analysis.total_volume = kw.total_volume
       /\ analysis.platforms = kw.platforms
       /\ InRange(analysis.opportunity_score, 0, 100)
       /\ analysis.platform_gaps = findGaps(ZeroFilled(kw))
       /\ analysis.platform_gaps = findGaps(ZeroStripped(kw))
       /\ SumVolumes(ZeroFilled(kw).platforms, 1) = kw.total_volume
       /\ SumVolumes(ZeroStripped(kw).platforms, 1) = kw.total_volume
  /\ Audited =>
       /\ Len(audits) = Len(audited)
       /\ \A i \in 1..Len(audits) :
            /\ audits[i].keyword = audited[i]
            /\ audits[i].brand_name = domain
            /\ audits[i].total_demand = SumOverKeys(audits[i].demand, AllPlatformKeys)
            /\ Matched[i] = Nil =>
                 /\ audits[i].demand = <<>>
                 /\ audits[i].total_demand = 0
                 /\ audits[i].covered_demand = 0
                 /\ audits[i].gap_score = [ num |-> 0, den |-> 1 ]
                 /\ audits[i].uncovered_platforms = <<>>
            /\ \A p \in AllPlatformKeys :
                 DemandOn(audits[i].demand, p) = MatchedVolume(Matched[i], p)
  /\ Summarised =>
       /\ summary # Nil
       /\ summary.keywords_analyzed = Len(audited)
       /\ \A p \in AllPlatformKeys :
            DemandOn(summary.total_demand_by_platform, p) = SumMatched(Matched, 1, p)

\* A record whose high platform is there and whose low platform is absent: the
\* gap is the one of a low volume of 0.
C17_Witness ==
  /\ Analyzed
  /\ \E i \in 1..Len(analysis.platform_gaps) :
       LET g == analysis.platform_gaps[i]
       IN  /\ ~Has(kw.platforms, g.low_volume_platform)
           /\ g.low_volume = 0
           /\ g.opportunity_score = [ num |-> 95, den |-> 1 ]

\* A record with no platforms at all.
C17_WitnessNoPlatforms ==
  /\ Analyzed
  /\ kw.platforms = <<>>
  /\ analysis.platform_gaps = <<>>
  /\ analysis.opportunity_score = [ num |-> 0, den |-> 1 ]

\* An unknown keyword beside a known one, audited for a domain without ads.
C17_WitnessAudit ==
  /\ Audited
  /\ AdsOf(domain) = <<>>
  /\ Len(audits) = 2
  /\ Matched[1] = Nil
  /\ Matched[2] # Nil
  /\ audits[1].total_demand = 0
  /\ audits[2].total_demand > 0

\* The summary of an empty keyword list.
C17_WitnessEmptyList ==
  /\ Summarised
  /\ audited = <<>>
  /\ summary.top_demand_platform = "unknown"

\* ---------------------------------------------------------------- claims: hybrid client

\* The hybrid getCrossPlatformKeyword has returned or thrown.
HybridDone == response # Nil /\ pc \in {"built", "analyzed", "failed"}

\* C18: when the vendor request yields no real data (network error, non-OK
\* status, empty platforms object) the hybrid getCrossPlatformKeyword returns,
\* for every query findKeyword matches, the record findKeyword returns, with all
\* of its platforms.
C18_FullFallback ==
  (HybridDone /\ NoVendorData(response) /\ findKeyword(keyword) # Nil) =>
    kw = findKeyword(keyword)

\* The platforms of the vendor response (none when it carries no data).
VendorKeys ==
  IF NoVendorData(response) THEN {} ELSE KeysOf(response.json.platforms)

\* C19: in every record the hybrid getCrossPlatformKeyword returns, a platform
\* is flagged is_estimated = false only if its data point came from the vendor
\* response, and every platform whose data point comes from local demo or
\* fixture data is flagged is_estimated = true.
C19_EstimatedFlag ==
  (HybridDone /\ kw # Nil) =>
    \A i \in 1..Len(kw.platforms) :
      kw.platforms[i][2].is_estimated = (kw.platforms[i][1] \notin VendorKeys)

\* ---------------------------------------------------------------- claims: fixture examples

\* C20: for the fixture keyword "grwm protein shake" (tiktok 340,000, google
\* 2,400) analyzeKeyword records a tiktok->google gap with ratio 340000 / 2400
\* (about 141.7) and score exactly 90.
C20_GrwmProteinShake ==
  (Analyzed /\ response = Nil /\ kw.keyword = "grwm protein shake") =>
    /\ VolumeOf(kw, "tiktok") = 340000
    /\ VolumeOf(kw, "google") = 2400
    /\ Cardinality({ i \in 1..Len(analysis.platform_gaps) :
                       /\ analysis.platform_gaps[i].high_volume_platform = "tiktok"
                       /\ analysis.platform_gaps[i].low_volume_platform = "google" }) = 1
    /\ \A i \in 1..Len(analysis.platform_gaps) :
         LET g == analysis.platform_gaps[i]
         IN  (g.high_volume_platform = "tiktok" /\ g.low_volume_platform = "google") =>
               /\ g.high_volume = 340000
               /\ g.low_volume = 2400
               /\ g.volume_ratio = [ num |-> 425, den |-> 3 ]
               /\ FracLeq([ num |-> 14165, den |-> 100 ], g.volume_ratio)
               /\ FracLt(g.volume_ratio, [ num |-> 14175, den |-> 100 ])
               /\ g.opportunity_score = [ num |-> 90, den |-> 1 ]

C20_Witness ==
  /\ Analyzed
  /\ response = Nil
  /\ kw.keyword = "grwm protein shake"
  /\ \E i \in 1..Len(analysis.platform_gaps) :
       /\ analysis.platform_gaps[i].high_volume_platform = "tiktok"
       /\ analysis.platform_gaps[i].low_volume_platform = "google"
       /\ analysis.platform_gaps[i].opportunity_score = [ num |-> 90, den |-> 1 ]

\* C21: for the fixture keyword "whey protein isolate" (google 201,000, tiktok
\* 56,000) the enumeration of the six configured pairs records no gap for the
\* tiktok->google pair: tiktok's volume is below 5 times google's.
C21_WheyProteinIsolate ==
  (Analyzed /\ response = Nil /\ kw.keyword = "whey protein isolate") =>
    /\ Len(STRATEGIC_PAIRS) = 6
    /\ \E p \in PairIndexes : STRATEGIC_PAIRS[p] = <<"tiktok", "google">>
    /\ VolumeOf(kw, "google") = 201000
    /\ VolumeOf(kw, "tiktok") = 56000
    /\ \A i \in 1..Len(analysis.platform_gaps) :
         ~ /\ analysis.platform_gaps[i].high_volume_platform = "tiktok"
           /\ analysis.platform_gaps[i].low_volume_platform = "google"

C21_Witness ==
  /\ Analyzed
  /\ response = Nil
  /\ kw.keyword = "whey protein isolate"
  /\ Has(kw.platforms, "tiktok")
  /\ Has(kw.platforms, "google")
  /\ analysis.platform_gaps = <<>>

\* ---------------------------------------------------------------- claims: side effects

\* The step is a call of one of the five functions.
CallsFunction ==
  pc' \in { "analyzed", "analyzed again", "found", "found again", "searched",
            "searched again", "audited", "audited again", "summarised",
            "summarised again" }

C22_WitnessAudit ==
  /\ pc = "audited again"
  /\ Len(audits) = MaxAudited
  /\ \E i \in 1..Len(audits) : audits[i].total_demand > 0

C22_WitnessLookup ==
  /\ pc = "searched again"
  /\ Len(matches) > 1

\* ---------------------------------------------------------------- claims: audit texts

ExpandPrefix == "High demand on "

ExpandSuffix == " but limited ad presence. Consider expanding paid coverage."

AdequateText == "Good coverage across active platforms."

UncoveredNames == { "TikTok", "Instagram", "Google (keyword gap)" }

EndsWith(s, q) == Len(q) <= Len(s) /\ SubSeq(s, Len(s) - Len(q) + 1, Len(s)) = q

\* The names of a list, separated by ", ".
Named(names) ==
  IF Len(names) = 1 THEN names[1]
  ELSE IF Len(names) = 2 THEN names[1] \o ", " \o names[2]
  ELSE names[1] \o ", " \o names[2] \o ", " \o names[3]

\* C23: in every audit of runBrandCoverage the recommendation is the "expand
\* paid coverage" text naming exactly the entries of uncovered_platforms when
\* that list is not empty, and it is the "coverage is adequate" text if and
\* only if uncovered_platforms is empty.
C23_Recommendation ==
  Audited =>
    \A i \in 1..Len(audits) :
      LET u == audits[i].uncovered_platforms
          r == audits[i].recommendation
      IN  /\ Len(u) <= 3
          /\ (r = AdequateText) <=> (u = <<>>)
          /\ (u # <<>>) =>
               /\ StartsWith(r, ExpandPrefix)
               /\ EndsWith(r, ExpandSuffix)
               /\ r = ExpandPrefix \o Named(u) \o ExpandSuffix
               /\ \A n \in UncoveredNames : Includes(r, n) <=> n \in ElementsOf(u)

C23_Witness ==
  /\ Audited
  /\ \E i \in 1..Len(audits) : Len(audits[i].uncovered_platforms) >= 2
  /\ \E i \in 1..Len(audits) : audits[i].uncovered_platforms = <<>>

C23_WitnessAllThree ==
  /\ Audited
  /\ \E i \in 1..Len(audits) : Len(audits[i].uncovered_platforms) = 3

\* ---------------------------------------------------------------- claims: the route

Fetchers == << <<"google", "Google: ">>, <<"bing", "Bing: ">>, <<"amazon", "Amazon: ">> >>

RouteRan == pc = "responded" /\ allSettled # Nil

FetchFailed(f) == allSettled[f].status = "rejected"

\* The volume fetcher f brought for the keyword of the request (0 when it
\* failed or brought nothing for it).
FetchedVolume(f) ==
  IF ~FetchFailed(f) /\ Has(allSettled[f].value, ToLowerCase(keyword))
  THEN Get(allSettled[f].value, ToLowerCase(keyword)).volume ELSE 0

ErrorsOf(json) == IF "errors" \in DOMAIN json THEN json.errors ELSE <<>>

\* C24: whichever of the Google, Bing and Amazon fetches fail, the route
\* responds successfully with the platforms of the fetches that succeeded with
\* volume > 0, and its errors list has exactly one entry per failed fetch (and
\* is absent when none failed): one fetch's failure never discards another's
\* data.
C24_IndependentFetches ==
  RouteRan =>
    /\ response.ok
    /\ response.status = 200
    /\ \A i \in 1..3 :
         LET f == Fetchers[i][1]
         IN  /\ Has(response.json.platforms, f) <=> FetchedVolume(f) > 0
             /\ Has(response.json.platforms, f) =>
                  Get(response.json.platforms, f).volume = FetchedVolume(f)
             /\ Cardinality({ j \in 1..Len(ErrorsOf(response.json)) :
                                StartsWith(ErrorsOf(response.json)[j], Fetchers[i][2]) })
                  = IF FetchFailed(f) THEN 1 ELSE 0
    /\ Len(response.json.platforms) <= 3
    /\ Len(ErrorsOf(response.json)) = Cardinality({ i \in 1..3 : FetchFailed(Fetchers[i][1]) })
    /\ ("errors" \in DOMAIN response.json) <=> \E i \in 1..3 : FetchFailed(Fetchers[i][1])

C24_Witness ==
  /\ RouteRan
  /\ FetchFailed("google")
  /\ FetchFailed("amazon")
  /\ ~FetchFailed("bing")
  /\ Has(response.json.platforms, "bing")
  /\ Len(response.json.errors) = 2

C24_WitnessAllFail ==
  /\ RouteRan
  /\ \A i \in 1..3 : FetchFailed(Fetchers[i][1])
  /\ response.ok

C24_WitnessNoneFail ==
  /\ RouteRan
  /\ \A i \in 1..3 : ~FetchFailed(Fetchers[i][1])
  /\ Len(response.json.platforms) = 3

\* ---------------------------------------------------------------- claims: trends

Extracted == pc = "extracted"

\* The entries extractTrend was given (none for null).
Given == IF monthly = Nil THEN <<>> ELSE monthly.entries

MonthKey(e) == e.year * 12 + e.month

VolumeIn(e) == IF DOMAIN e = { "year", "month" } THEN 0 ELSE e.search_volume

\* The positions entry i of the list can take in chronological order.
Earlier(i) == Cardinality({ j \in 1..Len(Given) : MonthKey(Given[j]) < MonthKey(Given[i]) })

NotLater(i) == Cardinality({ j \in 1..Len(Given) : MonthKey(Given[j]) <= MonthKey(Given[i]) })

\* C25: extractTrend returns at most 12 values, the search volumes of the 12
\* most recent months of the list in ascending (year, then month) order
\* whatever the order of the list, and an empty series for a null or empty
\* list.
C25_ExtractTrend ==
  Extracted =>
    /\ Len(trend) <= 12
    /\ (monthly = Nil \/ Given = <<>>) => trend = <<>>
    /\ LET n == Len(Given)
           l == Len(trend)
       IN  /\ l = MinInt(12, n)
           /\ \A p \in 1..l :
                \E i \in 1..n :
                  /\ Earlier(i) < n - l + p
                  /\ n - l + p <= NotLater(i)
                  /\ trend[p] = VolumeIn(Given[i])

C25_Witness ==
  /\ Extracted
  /\ Len(Given) > 12
  /\ MonthKey(Given[1]) > MonthKey(Given[Len(Given)])
  /\ \E i \in 1..Len(Given) : Given[i].year # Given[1].year

C25_WitnessNull ==
  /\ Extracted
  /\ monthly = Nil

C25_WitnessSameMonth ==
  /\ Extracted
  /\ Len(Given) = 2
  /\ MonthKey(Given[1]) = MonthKey(Given[2])
  /\ trend = << 7, 5 >>

\* ---------------------------------------------------------------- claims: the page

\* No handleSearch call is in flight and one has been made.
Quiet == calls = <<>> /\ searchedKeyword # ""

\* What the page displays is what a search for k ends with, for one of the
\* ways its request can settle.
ShowsSearchFor(k) ==
  \E res \in PageResponses(k) :
    LET r == getCrossPlatformKeyword(k, res)
    IN  IF r.ok
        THEN keywordData = r.value /\ opportunities = analyzeKeyword(r.value)
        ELSE keywordData = Nil /\ opportunities = Nil

\* C26: whatever the interleaving of searches, once no search is in flight the
\* keywordData and opportunities displayed are the result of the search started
\* last (searchedKeyword), never of an earlier search that completed later.
C26_LatestSearchShown == Quiet => ShowsSearchFor(searchedKeyword)

\* C27: in every state of the page in which no search is in flight, loading is
\* false, error and keywordData are not both non-null, and keywordData is
\* non-null iff opportunities is non-null; for any sequence of searches,
\* overlapping ones where one fails and another succeeds included.
C27_QuietPage ==
  calls = <<>> =>
    /\ loading = FALSE
    /\ ~(pageError # NULL /\ keywordData # Nil)
    /\ (keywordData # Nil) <=> (opportunities # Nil)

\* ---------------------------------------------------------------- claims: agreement

\* A lookup result f and a search result m of one query agree.
LookupAgrees(f, m) ==
  /\ (f = Nil) <=> (m = <<>>)
  /\ f # Nil => \E i \in 1..Len(m) : m[i] = f

\* C28: for every query, findKeyword(query) is none iff searchKeywords(query)
\* is empty, and a result of findKeyword(query) is a member of
\* searchKeywords(query); also for empty and white-space-only queries.
C28_LookupAndSearchAgree ==
  /\ pc = "found" => LookupAgrees(found, searchKeywords(keyword))
  /\ pc = "searched" => LookupAgrees(findKeyword(keyword), matches)

C28_Witness ==
  /\ pc = "found"
  /\ found # Nil
  /\ keyword # ""
  /\ Trim(keyword) = ""
  /\ Len(searchKeywords(keyword)) > 1

C28_WitnessSubstring ==
  /\ pc = "searched"
  /\ Len(matches) > 1
  /\ findKeyword(keyword) # Nil
  /\ ~StartsWith(ToLowerCase(findKeyword(keyword).keyword), Trim(ToLowerCase(keyword)))

C28_WitnessNone ==
  /\ pc = "found"
  /\ found = Nil
  /\ Len(KEYWORDS) > 0

RECURSIVE SumAudits(_, _, _)
SumAudits(as, i, p) ==
  IF i > Len(as) THEN 0
  ELSE DemandOn(as[i].demand, p) + SumAudits(as, i + 1, p)

RECURSIVE SumTotals(_, _)
SumTotals(as, i) ==
  IF i > Len(as) THEN 0 ELSE as[i].total_demand + SumTotals(as, i + 1)

\* A summary s and the audits as of one domain and keyword list agree.
SummaryAgrees(s, as) ==
  /\ \A p \in AllPlatformKeys :
       DemandOn(s.total_demand_by_platform, p) = SumAudits(as, 1, p)
  /\ KeysOf(s.total_demand_by_platform) \subseteq AllPlatformKeys
  /\ SumDemand(s.total_demand_by_platform, 1) = SumTotals(as, 1)
  /\ \A i \in 1..Len(as) :
       /\ (Get(s.coverage_status, "meta") = "active") <=> as[i].coverage.meta_ads
       /\ (Get(s.coverage_status, "google") = "active") <=> as[i].coverage.google_ads
       /\ (Get(s.coverage_status, "tiktok") = "active") <=> as[i].coverage.tiktok_ads

\* C29: for one domain and keyword list, runBrandSummary's
\* total_demand_by_platform[p] is the sum over runBrandCoverage's audits of
\* demand[p] for every platform p (so the grand total is the sum of the audits'
\* total_demand), and coverage_status of meta, google and tiktok is "active"
\* exactly when the audits' flags meta_ads, google_ads and tiktok_ads are true.
C29_SummaryAndCoverageAgree ==
  /\ Summarised => SummaryAgrees(summary, runBrandCoverage(domain, audited))
  /\ Audited => SummaryAgrees(runBrandSummary(domain, audited), audits)

C29_Witness ==
  /\ Summarised
  /\ Len(audited) = MaxAudited
  /\ \A i \in 1..Len(audited) : findKeyword(audited[i]) # Nil
  /\ audited[1] # audited[2]
  /\ Get(summary.coverage_status, "meta") = "active"
  /\ \E p \in AllPlatformKeys :
       \A i \in 1..Len(audited) : MatchedVolume(findKeyword(audited[i]), p) > 0

C29_WitnessInactive ==
  /\ Audited
  /\ Len(audits) > 0
  /\ \A i \in 1..Len(audits) : ~audits[i].coverage.meta_ads /\ audits[i].total_demand > 0

\* ---------------------------------------------------------------- claims: gap score and uncovered platforms

Zero == [ num |-> 0, den |-> 1 ]

\* C30 as stated: in every audit gap_score is 0 whenever uncovered_platforms is
\* empty (recommendation "Good coverage across active platforms"), and
\* gap_score is greater than 0 whenever uncovered_platforms is not empty.
C30_GapScoreMatchesUncovered ==
  Audited =>
    \A i \in 1..Len(audits) :
      /\ audits[i].uncovered_platforms = <<>> =>
           /\ audits[i].gap_score = Zero
           /\ audits[i].recommendation = AdequateText
      /\ audits[i].uncovered_platforms # <<>> => FracLt(Zero, audits[i].gap_score)

\* C30, amended: in every audit, an empty uncovered_platforms goes with the
\* "Good coverage" text and total_demand 0 goes with an empty list and gap_score
\* 0; a list naming TikTok or Instagram goes with covered_demand below
\* total_demand; gap_score is 0 when covered_demand equals total_demand and is
\* positive only when it is below.  Nothing more ties the two: demand on
\* platforms no ad platform covers gives a positive gap_score with an empty
\* list, and a list naming only the Google keyword gap can go with gap_score 0.
C30_GapScoreAndUncovered ==
  Audited =>
    \A i \in 1..Len(audits) :
      LET u == ElementsOf(audits[i].uncovered_platforms)
      IN  /\ (u = {}) <=> (audits[i].recommendation = AdequateText)
          /\ audits[i].total_demand = 0 => (u = {} /\ audits[i].gap_score = Zero)
          /\ ("TikTok" \in u \/ "Instagram" \in u) =>
               audits[i].covered_demand < audits[i].total_demand
          /\ audits[i].covered_demand = audits[i].total_demand =>
               audits[i].gap_score = Zero
          /\ FracLt(Zero, audits[i].gap_score) =>
               audits[i].covered_demand < audits[i].total_demand

\* An audit with nothing uncovered and a positive gap score.
C30_Witness ==
  /\ Audited
  /\ \E i \in 1..Len(audits) :
       /\ audits[i].uncovered_platforms = <<>>
       /\ FracLt(Zero, audits[i].gap_score)
       /\ audits[i].recommendation = AdequateText

\* An audit that lists TikTok.
C30_WitnessTikTok ==
  /\ Audited
  /\ \E i \in 1..Len(audits) :
       /\ "TikTok" \in ElementsOf(audits[i].uncovered_platforms)
       /\ audits[i].covered_demand < audits[i].total_demand

\* An audit that lists the Google keyword gap with gap score 0.
C30_WitnessKeywordGapOnly ==
  /\ Audited
  /\ \E i \in 1..Len(audits) :
       /\ audits[i].uncovered_platforms = << "Google (keyword gap)" >>
       /\ audits[i].gap_score = Zero
       /\ audits[i].total_demand > 0
====
